---- MODULE Spec2Model ----
(***************************************************************************)
(* Model of the clawcontrol deployment orchestrator: the checkpoint        *)
(* ledger helpers (getLastCheckpoint, getNextCheckpoint,                   *)
(* markCheckpointComplete, getCheckpointRetryCount, resetToCheckpoint)     *)
(* and DeploymentOrchestrator.deploy / executeFromCheckpoint of            *)
(* src/src/providers/index.ts.                                             *)
(*                                                                         *)
(* Indices are 0-based as in the source: indexOf returns -1 for a name     *)
(* that is not in CHECKPOINT_ORDER, and the for loop runs i from the start *)
(* index to CHECKPOINT_ORDER.length - 1.                                   *)
(***************************************************************************)
EXTENDS Integers, Sequences, FiniteSets, TLC

VARIABLES
    status,        \* DeploymentState.status (persisted)
    checkpoints,   \* DeploymentState.checkpoints (persisted, storage order)
    lastError,     \* DeploymentState.lastError (persisted)
    pc,            \* position of the orchestrator's control flow
    i,             \* loop variable of executeFromCheckpoint
    retryCount,    \* local retryCount of executeFromCheckpoint
    settled,       \* how the last operation on the deployment ended
    thrown,        \* the error the last startDeployment call rejected with
    executed,      \* history: indices passed to executeCheckpoint in this run
    startNames,    \* history: names in the ledger when deploy() started
    entryLedger,   \* history: the ledger when the current for-iteration started
    attempts,      \* history: executeCheckpoint calls in the current for-iteration
    lastThrown,    \* errorMessage of the catch block: the last error a step threw
    confirmed,     \* history: what the last restart confirmation answered
    restarts,      \* history: confirmed restarts in this run
    prevFailedAt,  \* history: index the previous run failed terminally at, or -1
    failures,      \* number of step failures so far (bounded)
    runs,          \* number of startDeployment calls so far (bounded)
    resets,        \* number of external resetToCheckpoint calls so far (bounded)
    reports,       \* the DeploymentProgress values passed to onProgress in this run
    call,          \* the last application of a ledger function to the state
    api,           \* the DigitalOceanClient call in progress
    work           \* the step implementation in progress and what it acts on

vars == << status, checkpoints, lastError, pc, i, retryCount, settled, thrown,
           executed, startNames, entryLedger, attempts, lastThrown, confirmed,
           restarts, prevFailedAt, failures, runs, resets, reports, call, api, work >>

\* What the orchestrator never touches
others == << call, api, work >>

persisted == << status, checkpoints, lastError >>
history == << executed, startNames, entryLedger, attempts, lastThrown,
              confirmed, restarts, prevFailedAt >>

----------------------------------------------------------------------------
(* Bounds of the exploration *)

MaxFailures == 6
MaxRuns == 2
MaxResets == 1
Messages ==
    {"timeout", "refused", "Tailscale authentication timed out",
     "SSH key pair not found"}
\* The steps the explored environments make throw: the first step, and the
\* step that waits for the remote Tailscale authentication.
FlakySteps == {"server_created", "tailscale_authenticated"}

----------------------------------------------------------------------------
(* Program constants *)

MAX_RETRIES_off == 3 + 1
MAX_RETRIES == 3

CHECKPOINT_ORDER ==
    << "server_created", "ssh_key_uploaded", "ssh_connected",
       "swap_configured", "system_updated", "nvm_installed",
       "node_installed", "pnpm_installed", "chrome_installed",
       "openclaw_installed", "openclaw_configured", "tailscale_installed",
       "tailscale_authenticated", "tailscale_configured", "daemon_started",
       "completed" >>

\* The names the persisted-state schema accepts: the fixed order plus the
\* legacy name kept for existing deployments.
OrderNames == { CHECKPOINT_ORDER[k] : k \in 1..Len(CHECKPOINT_ORDER) }
CheckpointName == OrderNames \cup {"channel_paired"}

DeploymentStatus ==
    {"initialized", "provisioning", "configuring", "deployed", "failed",
     "updating"}

NULL == "null"
undefined == "undefined"

\* CHECKPOINT_ORDER.length
OrderLength == Len(CHECKPOINT_ORDER)

\* CHECKPOINT_ORDER.includes(name)
Includes(name) == \E k \in 1..OrderLength : CHECKPOINT_ORDER[k] = name

\* CHECKPOINT_ORDER.indexOf(name): 0-based, -1 when absent
IndexOf(name) ==
    IF Includes(name)
    THEN (CHOOSE k \in 1..OrderLength : CHECKPOINT_ORDER[k] = name) - 1
    ELSE -1

\* CHECKPOINT_ORDER[k] for a 0-based k
At(k) == CHECKPOINT_ORDER[k + 1]

\* state.checkpoints.map((cp) => cp.name), as a set
Names(cps) == { cps[k].name : k \in 1..Len(cps) }

\* A ledger entry; completedAt, a wall-clock timestamp no code reads back, is
\* left out.
Checkpoint(name, rc) == [name |-> name, retryCount |-> rc]

\* The persisted DeploymentState of the deployment (readDeploymentState)
State == [status |-> status, checkpoints |-> checkpoints, lastError |-> lastError]

\* Writing a DeploymentState back (updateDeploymentState's write)
Persist(s) ==
    /\ status' = s.status
    /\ checkpoints' = s.checkpoints
    /\ lastError' = s.lastError

----------------------------------------------------------------------------
(* Ledger helpers *)

\* Array.prototype.sort with the comparator of getLastCheckpoint: a stable
\* sort by index in CHECKPOINT_ORDER (insertion of the last element into the
\* sorted front, after every element that does not compare greater).
RECURSIVE SortByOrder(_)
SortByOrder(cps) ==
    IF cps = << >> THEN << >>
    ELSE LET front == SortByOrder(SubSeq(cps, 1, Len(cps) - 1))
             e == cps[Len(cps)]
             pos == Cardinality({k \in 1..Len(front) :
                                   IndexOf(front[k].name) <= IndexOf(e.name)})
         IN SubSeq(front, 1, pos) \o << e >> \o SubSeq(front, pos + 1, Len(front))

getLastCheckpoint_nofilter(state) ==
    IF Len(state.checkpoints) = 0 THEN NULL
    ELSE LET sorted == SortByOrder(state.checkpoints)
         IN IF Len(sorted) > 0 THEN sorted[Len(sorted)].name ELSE NULL

getLastCheckpoint_first(state) ==
    IF Len(state.checkpoints) = 0 THEN NULL
    ELSE LET sorted == SortByOrder(SelectSeq(state.checkpoints,
                                             LAMBDA cp : Includes(cp.name)))
         IN IF Len(sorted) > 0 THEN sorted[1].name ELSE NULL

getLastCheckpoint_unsorted(state) ==
    IF Len(state.checkpoints) = 0 THEN NULL
    ELSE LET sorted == SelectSeq(state.checkpoints,
                                 LAMBDA cp : Includes(cp.name))
         IN IF Len(sorted) > 0 THEN sorted[Len(sorted)].name ELSE NULL

getLastCheckpoint(state) ==
    IF Len(state.checkpoints) = 0 THEN NULL
    ELSE LET sorted == SortByOrder(SelectSeq(state.checkpoints,
                                             LAMBDA cp : Includes(cp.name)))
         IN IF Len(sorted) > 0 THEN sorted[Len(sorted)].name ELSE NULL

getNextCheckpoint_same(state) ==
    LET lastCheckpoint == getLastCheckpoint(state)
    IN IF lastCheckpoint = NULL THEN At(0)
       ELSE LET currentIndex == IndexOf(lastCheckpoint)
            IN IF currentIndex = -1 \/ currentIndex >= OrderLength - 1
               THEN "completed"
               ELSE At(currentIndex)

getNextCheckpoint_nonull(state) ==
    LET lastCheckpoint == getLastCheckpoint(state)
        currentIndex == IndexOf(lastCheckpoint)
    IN IF currentIndex = -1 \/ currentIndex >= OrderLength - 1
       THEN "completed"
       ELSE At(currentIndex + 1)

getNextCheckpoint(state) ==
    LET lastCheckpoint == getLastCheckpoint(state)
    IN IF lastCheckpoint = NULL THEN At(0)
       ELSE LET currentIndex == IndexOf(lastCheckpoint)
            IN IF currentIndex = -1 \/ currentIndex >= OrderLength - 1
               THEN "completed"
               ELSE At(currentIndex + 1)

\* state.checkpoints.findIndex((cp) => cp.name === name), 1-based, 0 if none
FindIndex(cps, name) ==
    IF \E k \in 1..Len(cps) : cps[k].name = name
    THEN CHOOSE k \in 1..Len(cps) :
            /\ cps[k].name = name
            /\ \A j \in 1..(k - 1) : cps[j].name # name
    ELSE 0

markCheckpointComplete_push(state, checkpointName, rc) ==
    [state EXCEPT
       !.checkpoints = Append(state.checkpoints, Checkpoint(checkpointName, rc)),
       !.status = IF checkpointName = "completed" THEN "deployed"
                  ELSE "configuring"]

markCheckpointComplete_swapped(state, checkpointName, rc) ==
    LET existingIndex == FindIndex(state.checkpoints, checkpointName)
        checkpoint == Checkpoint(checkpointName, rc)
    IN [state EXCEPT
          !.checkpoints = IF existingIndex >= 1
                          THEN [state.checkpoints EXCEPT ![existingIndex] = checkpoint]
                          ELSE Append(state.checkpoints, checkpoint),
          !.status = IF checkpointName = "completed" THEN "configuring"
                     ELSE "deployed"]

markCheckpointComplete_ahead(state, checkpointName, rc) ==
    LET ahead == IF IndexOf(checkpointName) < OrderLength - 1
                 THEN << Checkpoint(At(IndexOf(checkpointName) + 1), 0) >>
                 ELSE << >>
    IN [state EXCEPT
          !.checkpoints = Append(state.checkpoints, Checkpoint(checkpointName, rc))
                            \o ahead,
          !.status = IF checkpointName = "completed" THEN "deployed"
                     ELSE "configuring"]

markCheckpointComplete_clears(state, checkpointName, rc) ==
    LET existingIndex == FindIndex(state.checkpoints, checkpointName)
        checkpoint == Checkpoint(checkpointName, rc)
    IN [state EXCEPT
          !.checkpoints = IF existingIndex >= 1
                          THEN [state.checkpoints EXCEPT ![existingIndex] = checkpoint]
                          ELSE Append(state.checkpoints, checkpoint),
          !.status = IF checkpointName = "completed" THEN "deployed"
                     ELSE "configuring",
          !.lastError = undefined]

markCheckpointComplete(state, checkpointName, rc) ==
    LET existingIndex == FindIndex(state.checkpoints, checkpointName)
        checkpoint == Checkpoint(checkpointName, rc)
    IN [state EXCEPT
          !.checkpoints = IF existingIndex >= 1
                          THEN [state.checkpoints EXCEPT ![existingIndex] = checkpoint]
                          ELSE Append(state.checkpoints, checkpoint),
          !.status = IF checkpointName = "completed" THEN "deployed"
                     ELSE "configuring"]

getCheckpointRetryCount(state, checkpointName) ==
    LET k == FindIndex(state.checkpoints, checkpointName)
    IN IF k >= 1 THEN state.checkpoints[k].retryCount ELSE 0

resetToCheckpoint_after(state, checkpointName) ==
    LET checkpointIndex == IndexOf(checkpointName)
        newCheckpoints == SelectSeq(state.checkpoints,
                             LAMBDA cp : IndexOf(cp.name) > checkpointIndex)
    IN [state EXCEPT
          !.checkpoints = newCheckpoints,
          !.status = IF Len(newCheckpoints) > 0 THEN "configuring"
                     ELSE "initialized",
          !.lastError = undefined]

resetToCheckpoint_status(state, checkpointName) ==
    LET checkpointIndex == IndexOf(checkpointName)
        newCheckpoints == SelectSeq(state.checkpoints,
                             LAMBDA cp : IndexOf(cp.name) < checkpointIndex)
    IN [state EXCEPT
          !.checkpoints = newCheckpoints,
          !.lastError = undefined]

resetToCheckpoint(state, checkpointName) ==
    LET checkpointIndex == IndexOf(checkpointName)
        newCheckpoints == SelectSeq(state.checkpoints,
                             LAMBDA cp : IndexOf(cp.name) < checkpointIndex)
    IN [state EXCEPT
          !.checkpoints = newCheckpoints,
          !.status = IF Len(newCheckpoints) > 0 THEN "configuring"
                     ELSE "initialized",
          !.lastError = undefined]

----------------------------------------------------------------------------
(* DeploymentOrchestrator *)

\* new DeploymentError(message, checkpoint, retryCount, recoverable = true)
DeploymentError(message, checkpoint, rc, recoverable) ==
    [name |-> "DeploymentError", message |-> message, checkpoint |-> checkpoint,
     retryCount |-> rc, recoverable |-> recoverable]

\* The error thrown when the user declines the restart
DeclinedError_default(message, checkpoint, rc) ==
    DeploymentError(message, checkpoint, rc, TRUE)

DeclinedError(message, checkpoint, rc) ==
    DeploymentError(message, checkpoint, rc, FALSE)

\* The catch block's write of the failure to the persisted state
RecordFailure_status(state, errorMessage) ==
    [state EXCEPT !.status = "failed"]

RecordFailure(state, errorMessage) ==
    [state EXCEPT !.lastError = errorMessage, !.status = "failed"]

\* The catch block's test whether another local attempt follows
RetriesRemain_early(rc) == rc < MAX_RETRIES - 1

RetriesRemain(rc) == rc < MAX_RETRIES

\* executeCheckpoint's switch: the case of "completed" holds no statement, so
\* it cannot throw; every other case awaits a step that may throw.
StepMayThrow(checkpoint) == checkpoint # "completed"

\* The status deploy() writes before it starts executing
DeployStatus(state) == [state EXCEPT !.status = "provisioning"]

\* The steps whose implementation calls reportProgress itself, each with its
\* own checkpoint name (createServer, connectSSH, configureOpenClaw,
\* authenticateTailscale, startDaemon).
StepReports(checkpoint) ==
    checkpoint \in {"server_created", "ssh_connected", "openclaw_configured",
                    "tailscale_authenticated", "daemon_started"}

\* The progress value of reportProgress, (currentIndex / (length - 1)) * 100,
\* kept exact as the fraction num / den.
ProgressOf_length(currentIndex) ==
    [num |-> currentIndex * 100, den |-> OrderLength]

ProgressOf(currentIndex) ==
    [num |-> currentIndex * 100, den |-> OrderLength - 1]

\* The DeploymentProgress reportProgress passes to onProgress (message and
\* completedSteps left out).
reportProgress(step) ==
    [currentStep |-> step,
     totalSteps |-> OrderLength,
     progress |-> ProgressOf(IndexOf(step))]

\* The reports a step makes while it executes. How many it makes depends on
\* branches inside the step; each passes the same currentStep, totalSteps and
\* progress, and one is recorded.
StepProgress(checkpoint) ==
    IF StepReports(checkpoint) THEN << reportProgress(checkpoint) >> ELSE << >>

\* The messages of the errors a step raises for a missing local invariant: no
\* SSH key id in state (uploadSSHKey), no server IP in state and no key pair
\* on disk (connectSSH, ensureSSHConnected).
PreconditionErrors ==
    {"SSH key not found in state", "Server IP not found in state",
     "SSH key pair not found"}

\* The message of the error waitForTailscaleAuth throws past its deadline
TailscaleTimedOut == "Tailscale authentication timed out"

\* The errors the explored environments make a step throw: createServer a
\* failed provider call; authenticateTailscale the timeout of its wait, or
\* the missing key pair found by ensureSSHConnected.
Throws(checkpoint) ==
    IF checkpoint = "server_created" THEN {"timeout", "refused"}
    ELSE IF checkpoint = "tailscale_authenticated"
         THEN {TailscaleTimedOut, "SSH key pair not found"}
         ELSE {}

\* startDeployment -> deploy(): read the state, compute the start checkpoint,
\* write status provisioning and enter executeFromCheckpoint.
Deploy ==
    /\ pc = "idle"
    /\ runs < MaxRuns
    /\ LET startCheckpoint == getNextCheckpoint(State)
       IN /\ Persist(DeployStatus(State))
          /\ i' = IndexOf(startCheckpoint)
    /\ pc' = "for"
    /\ runs' = runs + 1
    /\ settled' = "pending"
    /\ thrown' = NULL
    /\ executed' = << >>
    /\ startNames' = Names(checkpoints)
    /\ restarts' = 0
    /\ attempts' = 0
    /\ lastThrown' = undefined
    /\ confirmed' = "none"
    /\ prevFailedAt' = IF settled = "rejected" THEN IndexOf(thrown.checkpoint)
                       ELSE -1
    /\ reports' = << >>
    /\ UNCHANGED << retryCount, entryLedger, failures, resets >>
    /\ UNCHANGED others

\* Top of a for iteration: read the state and the checkpoint's retry count,
\* report progress, and test the while condition a first time.
ForIteration ==
    /\ pc = "for"
    /\ i < OrderLength
    /\ LET rc == getCheckpointRetryCount(State, At(i))
       IN /\ retryCount' = rc
          /\ pc' = IF rc < MAX_RETRIES THEN "while" ELSE "for"
          /\ i' = IF rc < MAX_RETRIES THEN i ELSE i + 1
    /\ entryLedger' = checkpoints
    /\ attempts' = 0
    /\ reports' = Append(reports, reportProgress(At(i)))
    /\ UNCHANGED << persisted, settled, thrown, executed, startNames, lastThrown,
                    confirmed, restarts, prevFailedAt, failures, runs, resets >>
    /\ UNCHANGED others

\* executeCheckpoint returned: markCheckpointComplete and break.
StepSucceeds ==
    /\ pc = "while"
    /\ Persist(markCheckpointComplete(State, At(i), retryCount))
    /\ executed' = Append(executed, i)
    /\ attempts' = attempts + 1
    /\ i' = i + 1
    /\ pc' = "for"
    /\ reports' = reports \o StepProgress(At(i))
    /\ UNCHANGED << retryCount, settled, thrown, startNames, entryLedger,
                    lastThrown, confirmed, restarts, prevFailedAt, failures,
                    runs, resets >>
    /\ UNCHANGED others

\* executeCheckpoint threw: the catch block up to the backoff or to the
\* invocation of the confirm callback.
StepThrows(errorMessage) ==
    /\ pc = "while"
    /\ StepMayThrow(At(i))
    /\ At(i) \in FlakySteps
    /\ errorMessage \in Throws(At(i))
    /\ failures < MaxFailures
    /\ failures' = failures + 1
    /\ retryCount' = retryCount + 1
    /\ Persist(RecordFailure(State, errorMessage))
    /\ executed' = Append(executed, i)
    /\ attempts' = attempts + 1
    /\ lastThrown' = errorMessage
    /\ pc' = IF RetriesRemain(retryCount + 1) THEN "while" ELSE "confirm"
    /\ reports' = reports \o StepProgress(At(i)) \o
                    (IF RetriesRemain(retryCount + 1)
                     THEN << reportProgress(At(i)) >> ELSE << >>)
    /\ UNCHANGED << i, settled, thrown, startNames, entryLedger, confirmed,
                    restarts, prevFailedAt, runs, resets >>
    /\ UNCHANGED others

\* onConfirm resolved true: reset to the first checkpoint and run
\* executeFromCheckpoint(CHECKPOINT_ORDER[0]); the outer call returns when the
\* inner one does, so the inner loop continues in place of the outer one.
ConfirmRestart ==
    /\ pc = "confirm"
    /\ Persist(resetToCheckpoint(State, At(0)))
    /\ i' = 0
    /\ pc' = "for"
    /\ confirmed' = "yes"
    /\ restarts' = restarts + 1
    /\ UNCHANGED << retryCount, settled, thrown, executed, startNames,
                    entryLedger, attempts, lastThrown, prevFailedAt, failures,
                    runs, resets, reports >>
    /\ UNCHANGED others

\* onConfirm resolved false: DeploymentError is thrown out of deploy().
DeclineRestart ==
    /\ pc = "confirm"
    /\ thrown' = DeclinedError(lastThrown, At(i), retryCount)
    /\ settled' = "rejected"
    /\ pc' = "idle"
    /\ confirmed' = "no"
    /\ UNCHANGED << persisted, i, retryCount, executed, startNames, entryLedger,
                    attempts, lastThrown, restarts, prevFailedAt, failures, runs,
                    resets, reports >>
    /\ UNCHANGED others

\* The for loop ended: status deployed, deploy() returns.
Finish ==
    /\ pc = "for"
    /\ i >= OrderLength
    /\ Persist([State EXCEPT !.status = "deployed"])
    /\ settled' = "resolved"
    /\ pc' = "idle"
    /\ UNCHANGED << i, retryCount, thrown, executed, startNames, entryLedger,
                    attempts, lastThrown, confirmed, restarts, prevFailedAt,
                    failures, runs, resets, reports >>
    /\ UNCHANGED others

\* A call of the exported resetToCheckpoint while no deployment runs.
ResetCall(checkpointName) ==
    /\ pc = "idle"
    /\ resets < MaxResets
    /\ resets' = resets + 1
    /\ Persist(resetToCheckpoint(State, checkpointName))
    /\ settled' = "reset"
    /\ UNCHANGED << pc, i, retryCount, thrown, executed, startNames,
                    entryLedger, attempts, lastThrown, confirmed, restarts,
                    prevFailedAt, failures, runs, reports >>
    /\ UNCHANGED others

\* The ledger of a deployment completed by the earlier release whose order
\* had channel_paired between daemon_started and completed.
LegacyLedger ==
    [k \in 1..(OrderLength + 1) |->
        IF k < OrderLength THEN Checkpoint(At(k - 1), 0)
        ELSE IF k = OrderLength THEN Checkpoint("channel_paired", 0)
        ELSE Checkpoint("completed", 0)]

\* No ledger function has been applied; no client call is in progress
NoCall == [op |-> "none"]
NoApi == [op |-> "none"]
NoStep == [op |-> "none"]

\* The orchestrator before any startDeployment call
Idle ==
    /\ pc = "idle"
    /\ i = 0
    /\ retryCount = 0
    /\ settled = "none"
    /\ thrown = NULL
    /\ executed = << >>
    /\ startNames = {}
    /\ entryLedger = << >>
    /\ attempts = 0
    /\ lastThrown = undefined
    /\ confirmed = "none"
    /\ restarts = 0
    /\ prevFailedAt = -1
    /\ failures = 0
    /\ runs = 0
    /\ resets = 0
    /\ reports = << >>

\* A deployment as createDeployment leaves it, or one an earlier release
\* completed.
Init ==
    /\ \/ status = "initialized" /\ checkpoints = << >>
       \/ status = "deployed" /\ checkpoints = LegacyLedger
    /\ lastError = undefined
    /\ Idle
    /\ call = NoCall
    /\ api = NoApi
    /\ work = NoStep

Next ==
    \/ Deploy
    \/ ForIteration
    \/ StepSucceeds
    \/ \E errorMessage \in Messages : StepThrows(errorMessage)
    \/ ConfirmRestart
    \/ DeclineRestart
    \/ Finish
    \/ \E checkpointName \in OrderNames : ResetCall(checkpointName)

Spec == Init /\ [][Next]_vars

----------------------------------------------------------------------------
(* Properties *)

\* The set S is the set of the first n names of the fixed order, for some n
IsOrderPrefix(S) == \E n \in 0..OrderLength : S = { At(k) : k \in 0..(n - 1) }

\* The indices from n to the end of the fixed order, in order
IndicesFrom(n) == [k \in 1..(OrderLength - n) |-> n + k - 1]

\* The run that just resolved had no failing step and started from a prefix
CleanResumeSettled ==
    /\ settled = "resolved"
    /\ lastThrown = undefined
    /\ IsOrderPrefix(startNames)

\* C1 as stated: a run without step failures that starts from a ledger C that
\* is a prefix of the fixed order (the full prefix included) executes exactly
\* the checkpoints not in C, each once, in the fixed order.
C1_ResumeExecutesOrderMinusLedger ==
    CleanResumeSettled => executed = IndicesFrom(Cardinality(startNames))

\* C1 amended: as above for every prefix but the full one; from the full
\* prefix the run executes the checkpoint completed (and only it) once more.
C1_ResumeExecutesRest ==
    CleanResumeSettled =>
        IF Cardinality(startNames) < OrderLength
        THEN executed = IndicesFrom(Cardinality(startNames))
        ELSE executed = << OrderLength - 1 >>

C1_Witness ==
    /\ CleanResumeSettled
    /\ Cardinality(startNames) \in 1..(OrderLength - 1)
    /\ Len(executed) = OrderLength - Cardinality(startNames)

\* C2: the ledger holds at most one entry per checkpoint name.
C2_AtMostOneEntryPerName ==
    \A j, k \in 1..Len(checkpoints) :
        checkpoints[j].name = checkpoints[k].name => j = k

\* A checkpoint that was in the ledger when its iteration started has just
\* been completed again.
C2_Witness ==
    /\ pc = "for"
    /\ attempts >= 1
    /\ i >= 1
    /\ executed # << >>
    /\ executed[Len(executed)] = i - 1
    /\ At(i - 1) \in Names(entryLedger)
    /\ At(i - 1) \in Names(checkpoints)

C4_DeclinedErrorFields ==
    settled = "rejected" =>
        /\ thrown.name = "DeploymentError"
        /\ thrown.checkpoint = At(executed[Len(executed)])
        /\ thrown.retryCount = 3
        /\ thrown.recoverable = FALSE

C4_Witness ==
    settled = "rejected" /\ confirmed = "no" /\ thrown.checkpoint = "tailscale_authenticated"

\* C5: after a declined restart the ledger is the one that existed when the
\* failing checkpoint started, status is failed and lastError is the message
\* of the last thrown error.
C5_DeclineLeavesLedger ==
    settled = "rejected" =>
        /\ checkpoints = entryLedger
        /\ status = "failed"
        /\ lastError = lastThrown

C5_Witness ==
    /\ settled = "rejected"
    /\ checkpoints # << >>
    /\ lastError = "refused"

\* C6 as stated: a confirmed restart leaves the ledger empty, whatever it
\* held, and continues at server_created.
C6_RestartClearsLedger ==
    [][ConfirmRestart => (checkpoints' = << >> /\ i' = 0)]_vars

\* C7 as stated: when server_created is about to be executed again after a
\* confirmed restart, the persisted status is provisioning.
C7_RestartStatusProvisioning ==
    (restarts > 0 /\ pc = "while" /\ i = 0 /\ attempts = 0)
        => status = "provisioning"

\* The position of a status on initialized -> provisioning -> configuring ->
\* {deployed | failed}
Rank(s) ==
    CASE s = "initialized" -> 0
      [] s = "provisioning" -> 1
      [] s = "configuring" -> 2
      [] s = "deployed" -> 3
      [] s = "failed" -> 3
      [] OTHER -> 4

Forward(s, t) == s = t \/ Rank(s) < Rank(t)

\* C8 as stated: every step of an orchestrator run moves the status forward
\* or leaves it, except the reset of a confirmed restart.
C8_StatusOnlyForward ==
    [][resets' # resets \/ ConfirmRestart \/ Forward(status, status')]_vars

\* C8 amended: the status moves forward or stays, except that a confirmed
\* restart resets it, the start of every run writes provisioning whatever
\* the status was, and a successful attempt after a failed one moves it from
\* failed back to configuring.
C8_StatusForwardExceptRestartStartRetry ==
    [][\/ resets' # resets
       \/ ConfirmRestart
       \/ (runs' # runs /\ status' = "provisioning")
       \/ (StepSucceeds /\ status = "failed" /\ status' = "configuring")
       \/ Forward(status, status')]_vars

\* A successful attempt has followed a failed one of the same checkpoint.
C8_Witness ==
    /\ pc = "for"
    /\ attempts > 1
    /\ status = "configuring"
    /\ lastError # undefined

\* C9: a rejection is preceded by 3 failed attempts of the checkpoint the
\* error names and by a confirmation answered no.
C9_RejectOnlyAfterExhaustionAndDecline ==
    settled = "rejected" =>
        /\ confirmed = "no"
        /\ attempts = 3
        /\ Len(executed) >= 3
        /\ \A k \in (Len(executed) - 2)..Len(executed) :
              executed[k] = IndexOf(thrown.checkpoint)
        /\ lastThrown # undefined

C9_Witness == settled = "rejected" /\ restarts = 0 /\ Len(executed) = 3

----------------------------------------------------------------------------
(* The ledger functions on their own, applied to arbitrary stored ledgers *)

\* Longest stored ledger drawn
MaxLedgerLen == 3

\* The names a drawn ledger may hold: the first three and the last of the
\* fixed order, and the legacy name that is not in it.
LedgerNames ==
    {"server_created", "ssh_key_uploaded", "ssh_connected", "completed",
     "channel_paired"}

\* Every sequence of at most n entries over LedgerNames, in any stored
\* order, repeated names allowed
Ledgers(n) ==
    UNION { [1..m -> { Checkpoint(name, 0) : name \in LedgerNames }] : m \in 0..n }

\* The variables of the orchestrator, which the ledger functions and the
\* provider client leave alone
orchestrator ==
    << pc, i, retryCount, settled, thrown, executed, startNames, entryLedger,
       attempts, lastThrown, confirmed, restarts, prevFailedAt, failures, runs,
       resets, reports >>

\* The record of one application: the function, its argument, the state it
\* was given and what it returned
Applied(op, arg, result) ==
    [op |-> op, arg |-> arg, before |-> State, result |-> result]

LedgerInit ==
    /\ checkpoints \in Ledgers(MaxLedgerLen)
    /\ status \in {"configuring", "failed"}
    /\ lastError \in {undefined, "timeout"}
    /\ Idle
    /\ call = NoCall
    /\ api = NoApi
    /\ work = NoStep

ApplyGetLastCheckpoint ==
    /\ call' = Applied("getLastCheckpoint", NULL, getLastCheckpoint(State))
    /\ UNCHANGED << persisted, orchestrator, api, work >>

ApplyGetNextCheckpoint ==
    /\ call' = Applied("getNextCheckpoint", NULL, getNextCheckpoint(State))
    /\ UNCHANGED << persisted, orchestrator, api, work >>

ApplyResetToCheckpoint(checkpointName) ==
    /\ Persist(resetToCheckpoint(State, checkpointName))
    /\ call' = Applied("resetToCheckpoint", checkpointName, NULL)
    /\ UNCHANGED << orchestrator, api, work >>

LedgerNext ==
    \/ ApplyGetLastCheckpoint
    \/ ApplyGetNextCheckpoint
    \/ \E checkpointName \in OrderNames : ApplyResetToCheckpoint(checkpointName)

LedgerSpec == LedgerInit /\ [][LedgerNext]_vars

\* The names of the fixed order a ledger holds
Present(cps) == { name \in Names(cps) : Includes(name) }

\* C11: getLastCheckpoint returns the entry with the highest index in the
\* fixed order whatever the stored order and whichever entry was written last,
\* and null when the ledger holds no entry of the fixed order.
C11_LastIsHighestInOrder ==
    call.op = "getLastCheckpoint" =>
        LET present == Present(call.before.checkpoints)
        IN IF present = {} THEN call.result = NULL
           ELSE /\ call.result \in present
                /\ \A name \in present : IndexOf(name) <= IndexOf(call.result)

\* A ledger stored out of order, its last stored entry the lowest
C11_Witness ==
    /\ call.op = "getLastCheckpoint"
    /\ Len(call.before.checkpoints) = 3
    /\ call.before.checkpoints[1].name = "ssh_connected"
    /\ call.before.checkpoints[2].name = "channel_paired"
    /\ call.before.checkpoints[3].name = "server_created"
    /\ call.result = "ssh_connected"

\* C12: getNextCheckpoint returns server_created for a ledger with no entry
\* of the fixed order, otherwise the immediate successor of the highest
\* present checkpoint, and completed when the highest present is the last.
C12_NextIsSuccessorOfHighest ==
    call.op = "getNextCheckpoint" =>
        LET present == Present(call.before.checkpoints)
        IN IF present = {} THEN call.result = "server_created"
           ELSE LET hi == CHOOSE name \in present :
                             \A other \in present : IndexOf(other) <= IndexOf(name)
                IN IF IndexOf(hi) = OrderLength - 1
                   THEN call.result = "completed"
                   ELSE call.result = At(IndexOf(hi) + 1)

C12_Witness ==
    /\ call.op = "getNextCheckpoint"
    /\ Names(call.before.checkpoints) = {"server_created", "ssh_key_uploaded"}
    /\ call.result = "ssh_connected"

\* C13: resetToCheckpoint(t), for every ledger and every t of the fixed order,
\* keeps exactly the entries whose index in the fixed order is strictly less
\* than the index of t, sets status to configuring if an entry remains and to
\* initialized otherwise, and clears lastError.
C13_ResetKeepsLowerOrderEntries ==
    call.op = "resetToCheckpoint" =>
        /\ checkpoints =
              SelectSeq(call.before.checkpoints,
                        LAMBDA cp : /\ Includes(cp.name)
                                    /\ IndexOf(cp.name) < IndexOf(call.arg))
        /\ status = IF Len(checkpoints) > 0 THEN "configuring" ELSE "initialized"
        /\ lastError = undefined

----------------------------------------------------------------------------
(* DigitalOceanClient *)

\* Largest caller-supplied timeoutMs and pollIntervalMs, and the longest a
\* status read takes, in clock ticks
MaxTimeout == 4
MaxInterval == 2
MaxLatency == 1

\* A promise's settlement: resolved with a value or rejected with an error
Return(value) == [kind |-> "return", value |-> value]
Throw(error) == [kind |-> "throw", value |-> error]
Unsettled == [kind |-> "pending"]

\* What a promise that resolves with no payload (undefined) resolves with
Void == [type |-> "undefined"]

\* new DigitalOceanAPIError(code, message, statusCode = 0)
DigitalOceanAPIError(code, message, statusCode) ==
    [name |-> "DigitalOceanAPIError", code |-> code, message |-> message,
     statusCode |-> statusCode]

\* What fetch rejects with when no response arrives, and what response.json()
\* rejects with when the body is not JSON text
NetworkError == [name |-> "TypeError", message |-> "fetch failed"]
SyntaxError == [name |-> "SyntaxError", message |-> "Unexpected end of JSON input"]

\* The settlements of fetch drawn: no response, or a response with a status
\* and a body that is empty, not JSON, or a JSON object whose id and message
\* members may be missing.
Statuses == {200, 202, 204, 401, 404, 500}
Bodies ==
    {[kind |-> "empty"], [kind |-> "text"]} \cup
    { [kind |-> "json", data |-> [id |-> id, message |-> message]] :
        id \in {undefined, "unauthorized", "not_found", "server_error"},
        message \in {undefined, "Unable to authenticate you"} }
FetchResults ==
    {[kind |-> "reject"]} \cup
    { [kind |-> "response", status |-> st, body |-> b] :
        st \in Statuses, b \in Bodies }

\* response.ok
Ok(st) == st >= 200 /\ st <= 299

\* x || fallback for an optional string member
OrElse(x, fallback) == IF x = undefined THEN fallback ELSE x

\* DigitalOceanClient.request, given what fetch settled with
request(fetched) ==
    IF fetched.kind = "reject" THEN Throw(NetworkError)
    ELSE IF fetched.status = 204 THEN Return(Void)
    ELSE IF fetched.body.kind # "json" THEN Throw(SyntaxError)
    ELSE IF ~Ok(fetched.status)
         THEN Throw(DigitalOceanAPIError(
                      OrElse(fetched.body.data.id, "unknown"),
                      OrElse(fetched.body.data.message,
                             "Unknown DigitalOcean API error"),
                      fetched.status))
         ELSE Return(fetched.body.data)

\* DigitalOceanClient.validateAPIKey; the booleans are "true" and "false"
validateAPIKey_anyError(fetched) ==
    LET r == request(fetched)
    IN IF r.kind = "return" THEN Return("true")
       ELSE IF r.value.name = "DigitalOceanAPIError" THEN Return("false")
       ELSE r

validateAPIKey(fetched) ==
    LET r == request(fetched)
    IN IF r.kind = "return" THEN Return("true")
       ELSE IF r.value.name = "DigitalOceanAPIError" /\ r.value.code = "unauthorized"
            THEN Return("false")
            ELSE r

\* The two polling waits and the status values of what they read
WaitOps == {"waitForDropletActive", "waitForAction"}
StatusValues(op) ==
    IF op = "waitForDropletActive" THEN {"new", "active", "off", "archive"}
    ELSE {"in-progress", "completed", "errored"}
ActiveValue(op) == IF op = "waitForDropletActive" THEN "active" ELSE "completed"
TerminalValues(op) ==
    IF op = "waitForDropletActive" THEN {"off", "archive"} ELSE {"errored"}
PendingValues(op) == StatusValues(op) \ ({ActiveValue(op)} \cup TerminalValues(op))

\* The droplet or action a status read returns: its status, and which read of
\* the wait returned it
Resource(st, n) == [status |-> st, read |-> n]

\* The errors the waits throw themselves
TerminalError(op, st) ==
    IF op = "waitForDropletActive"
    THEN DigitalOceanAPIError("droplet_not_active",
                              IF st = "off"
                              THEN "Droplet entered unexpected state: off"
                              ELSE "Droplet entered unexpected state: archive",
                              0)
    ELSE DigitalOceanAPIError("action_failed", "Action failed", 0)
TimeoutError(op) ==
    IF op = "waitForDropletActive"
    THEN DigitalOceanAPIError("timeout", "Droplet did not become active", 0)
    ELSE DigitalOceanAPIError("timeout", "Action did not complete", 0)

\* The while condition: Date.now() - startTime < timeoutMs
WithinTimeout_inclusive(elapsed, timeoutMs) == elapsed <= timeoutMs

WithinTimeout(elapsed, timeoutMs) == elapsed < timeoutMs

\* What the loop body does with the status just read
Verdict_missesActive(op, st) ==
    IF st \in TerminalValues(op) THEN "throw" ELSE "sleep"

Verdict_missesTerminal(op, st) ==
    IF st = ActiveValue(op) THEN "return" ELSE "sleep"

Verdict(op, st) ==
    IF st = ActiveValue(op) THEN "return"
    ELSE IF st \in TerminalValues(op) THEN "throw"
    ELSE "sleep"

\* What a status read (getDroplet, getAction) can reject with: every rejection
\* of request
ReadErrors ==
    { request(fetched).value :
        fetched \in { f \in FetchResults : request(f).kind = "throw" } }

\* The wait a settles with outcome
Settled(a, outcome) ==
    [op |-> a.op, pc |-> "done", now |-> a.now, timeoutMs |-> a.timeoutMs,
     pollIntervalMs |-> a.pollIntervalMs, reads |-> a.reads,
     started |-> a.started, seen |-> a.seen, outcome |-> outcome]

\* One call of request
CallRequest(fetched) ==
    /\ api = NoApi
    /\ api' = [op |-> "request", pc |-> "done", fetched |-> fetched,
               outcome |-> request(fetched)]
    /\ UNCHANGED << persisted, orchestrator, call, work >>

\* One call of validateAPIKey
CallValidateAPIKey(fetched) ==
    /\ api = NoApi
    /\ api' = [op |-> "validateAPIKey", pc |-> "done", fetched |-> fetched,
               outcome |-> validateAPIKey(fetched)]
    /\ UNCHANGED << persisted, orchestrator, call, work >>

\* Entry of waitForDropletActive or waitForAction: startTime = Date.now().
\* now is the time since startTime; started holds the time at which each
\* status read was started, seen the status each completed read returned.
StartWait(op, timeoutMs, pollIntervalMs) ==
    /\ api = NoApi
    /\ api' = [op |-> op, pc |-> "test", now |-> 0,
               timeoutMs |-> timeoutMs, pollIntervalMs |-> pollIntervalMs,
               reads |-> 0, started |-> << >>, seen |-> << >>,
               outcome |-> Unsettled]
    /\ UNCHANGED << persisted, orchestrator, call, work >>

\* The while test: start the next status read, or leave the loop and throw
\* the timeout error.
LoopTest ==
    /\ api.op \in WaitOps
    /\ api.pc = "test"
    /\ api' = IF WithinTimeout(api.now, api.timeoutMs)
              THEN [api EXCEPT !.pc = "read",
                               !.reads = @ + 1,
                               !.started = Append(@, api.now)]
              ELSE Settled(api, Throw(TimeoutError(api.op)))
    /\ UNCHANGED << persisted, orchestrator, call, work >>

\* The status read resolves after latency ticks; the loop body returns,
\* throws, or goes to sleep.
ReadReturns(st, latency) ==
    /\ api.op \in WaitOps
    /\ api.pc = "read"
    /\ st \in StatusValues(api.op)
    /\ LET verdict == Verdict(api.op, st)
           after == [api EXCEPT !.now = @ + latency, !.seen = Append(@, st)]
       IN api' =
            IF verdict = "return"
            THEN Settled(after, IF api.op = "waitForDropletActive"
                                THEN Return(Resource(st, api.reads))
                                ELSE Return(Void))
            ELSE IF verdict = "throw"
            THEN Settled(after, Throw(TerminalError(api.op, st)))
            ELSE [after EXCEPT !.pc = "sleep"]
    /\ UNCHANGED << persisted, orchestrator, call, work >>

\* The status read rejects: the wait rejects with the same error.
ReadThrows(error, latency) ==
    /\ api.op \in WaitOps
    /\ api.pc = "read"
    /\ api' = Settled([api EXCEPT !.now = @ + latency], Throw(error))
    /\ UNCHANGED << persisted, orchestrator, call, work >>

\* setTimeout(resolve, pollIntervalMs) fires
Sleep ==
    /\ api.op \in WaitOps
    /\ api.pc = "sleep"
    /\ api' = [api EXCEPT !.now = @ + api.pollIntervalMs, !.pc = "test"]
    /\ UNCHANGED << persisted, orchestrator, call, work >>

ClientInit ==
    /\ status = "initialized"
    /\ checkpoints = << >>
    /\ lastError = undefined
    /\ Idle
    /\ call = NoCall
    /\ api = NoApi
    /\ work = NoStep

ClientNext ==
    \/ \E fetched \in FetchResults : CallRequest(fetched)
    \/ \E fetched \in FetchResults : CallValidateAPIKey(fetched)
    \/ \E op \in WaitOps, timeoutMs \in 1..MaxTimeout,
          pollIntervalMs \in 1..MaxInterval :
              StartWait(op, timeoutMs, pollIntervalMs)
    \/ LoopTest
    \/ \E st \in UNION { StatusValues(op) : op \in WaitOps },
          latency \in 0..MaxLatency :
              ReadReturns(st, latency)
    \/ \E error \in ReadErrors, latency \in 0..MaxLatency :
              ReadThrows(error, latency)
    \/ Sleep

ClientSpec == ClientInit /\ [][ClientNext]_vars

\* The same client where every started status read is answered and every
\* timer fires
ClientLiveSpec == ClientSpec /\ WF_vars(ClientNext)

\* The call rejected with the DigitalOceanAPIError e
Rejected(e) ==
    /\ api.outcome.kind = "throw"
    /\ api.outcome.value.name = "DigitalOceanAPIError"
    /\ api.outcome.value = e

\* A wait that has ended
WaitDone == api.op \in WaitOps /\ api.pc = "done"

\* The statuses read so far are n pending values
AllPending(seen, n) ==
    \A k \in 1..n : seen[k] \in PendingValues(api.op)

----------------------------------------------------------------------------
(* Progress reports and lastError of the orchestrator *)

\* p <= q for two fractions with positive denominators
FracLeq(p, q) == p.num * q.den <= q.num * p.den

\* C14: every progress report for the checkpoint of index i among the N = 16
\* of the fixed order has progress = i / (N - 1) * 100 and totalSteps = N, and
\* over a run in which no step fails the reported progress never decreases.
C14_ProgressFormulaAndMonotone ==
    /\ \A k \in 1..Len(reports) :
          /\ reports[k].totalSteps = 16
          /\ reports[k].progress.den > 0
          /\ reports[k].progress.num * (16 - 1) =
                IndexOf(reports[k].currentStep) * 100 * reports[k].progress.den
    /\ lastThrown = undefined =>
          \A j, k \in 1..Len(reports) :
              j <= k => FracLeq(reports[j].progress, reports[k].progress)

\* A whole deployment without a failure: the reports go from 0 to 100
C14_Witness ==
    /\ settled = "resolved"
    /\ lastThrown = undefined
    /\ Len(executed) = 16
    /\ reports[1].progress = [num |-> 0, den |-> 15]
    /\ reports[Len(reports)].currentStep = "completed"
    /\ reports[Len(reports)].progress = [num |-> 1500, den |-> 15]

\* C15 as stated: every step failure writes its message to lastError and a
\* later success does not clear it, so that when a checkpoint succeeds after a
\* failed attempt of the run lastError holds the last failure message.
C15_SuccessKeepsLastFailure ==
    [][/\ failures' > failures => lastError' = lastThrown'
       /\ (pc = "while" /\ pc' = "for" /\ lastThrown # undefined) =>
             lastError' = lastThrown]_vars

\* C15 amended: every step failure writes its message to lastError, and a
\* successful attempt leaves lastError as it was; lastError holds the last
\* failure message of the run unless resetToCheckpoint has been applied since
\* (by a confirmed restart or by a caller between runs), in which case it is
\* cleared until the next failure.
C15_SuccessLeavesLastError ==
    [][/\ failures' > failures => lastError' = lastThrown'
       /\ (pc = "while" /\ pc' = "for") => lastError' = lastError
       /\ lastThrown' # undefined =>
             \/ lastError' = lastThrown'
             \/ /\ restarts' > 0 \/ settled' = "reset"
                /\ lastError' = undefined]_vars

\* A whole deployment that succeeded after a failed attempt
C15_Witness ==
    /\ settled = "resolved"
    /\ status = "deployed"
    /\ restarts = 0
    /\ lastThrown = "refused"
    /\ lastError = "refused"

----------------------------------------------------------------------------
(* Properties of the DigitalOceanClient *)

\* C16: when the status reads of a wait return k pending values and then the
\* active value, the wait has made exactly k + 1 reads and resolves, a wait
\* for a droplet with the droplet the last read returned.
C16_ResolvesAfterKPlusOneReads ==
    \A k \in 0..(MaxTimeout + 1) :
        ( /\ WaitDone
          /\ Len(api.seen) = k + 1
          /\ AllPending(api.seen, k)
          /\ api.seen[k + 1] = ActiveValue(api.op) ) =>
            /\ api.reads = k + 1
            /\ api.outcome.kind = "return"
            /\ api.op = "waitForDropletActive" =>
                 api.outcome.value = Resource("active", k + 1)

\* Two pending values, then active: three reads
C16_Witness ==
    /\ api.op = "waitForDropletActive"
    /\ api.pc = "done"
    /\ api.seen = << "new", "new", "active" >>
    /\ api.reads = 3
    /\ api.outcome.kind = "return"
    /\ api.outcome.value = Resource("active", 3)

\* C17: as soon as a status read returns a terminal value (droplet off or
\* archive, action errored) the wait has ended with the terminal-state error,
\* not the timeout error, and no read follows the terminal one, whether or
\* not the timeout has elapsed.
C17_TerminalStateEndsWait ==
    ( /\ api.op \in WaitOps
      /\ \E k \in 1..Len(api.seen) : api.seen[k] \in TerminalValues(api.op) ) =>
        LET last == api.seen[Len(api.seen)]
        IN /\ api.pc = "done"
           /\ last \in TerminalValues(api.op)
           /\ AllPending(api.seen, Len(api.seen) - 1)
           /\ api.reads = Len(api.seen)
           /\ Rejected(TerminalError(api.op, last))
           /\ api.outcome.value.code # "timeout"

\* An action that errors on the second read, before the timeout
C17_Witness ==
    /\ api.op = "waitForAction"
    /\ api.seen = << "in-progress", "errored" >>
    /\ api.now < api.timeoutMs
    /\ Rejected(TerminalError("waitForAction", "errored"))
    /\ api.outcome.value.code = "action_failed"

\* C18: a wait whose status reads all return pending values ends, and ends
\* with the timeout error; no status read is started once the time since
\* startTime has reached timeoutMs.
C18_TimeoutEndsWait ==
    /\ [](api.op \in WaitOps =>
            \A k \in 1..Len(api.started) : api.started[k] < api.timeoutMs)
    /\ []((/\ WaitDone
           /\ api.reads = Len(api.seen)
           /\ AllPending(api.seen, Len(api.seen))) =>
            /\ Rejected(TimeoutError(api.op))
            /\ api.now >= api.timeoutMs)
    /\ (api.op \in WaitOps) ~> WaitDone

\* A wait that timed out after reads that all returned a pending value
C18_Witness ==
    /\ api.op = "waitForDropletActive"
    /\ api.pc = "done"
    /\ api.timeoutMs = 3
    /\ api.seen = << "new", "new", "new" >>
    /\ Rejected(TimeoutError("waitForDropletActive"))
    /\ api.outcome.value.code = "timeout"

\* C19: validateAPIKey returns true when the read succeeds, false when it is
\* answered with the provider code unauthorized, and rejects with the error of
\* the read for every other failure.
C19_ValidateFalseOnlyOnUnauthorized ==
    (api.op = "validateAPIKey" /\ api.pc = "done") =>
        LET r == request(api.fetched)
            denied == /\ r.kind = "throw"
                      /\ r.value.name = "DigitalOceanAPIError"
                      /\ r.value.code = "unauthorized"
        IN /\ r.kind = "return" =>
                 api.outcome.kind = "return" /\ api.outcome.value = "true"
           /\ denied =>
                 api.outcome.kind = "return" /\ api.outcome.value = "false"
           /\ (r.kind = "throw" /\ ~denied) =>
                 api.outcome.kind = "throw" /\ api.outcome.value = r.value

\* A server error and a network exception both propagate
C19_Witness ==
    /\ api.op = "validateAPIKey"
    /\ api.pc = "done"
    /\ api.fetched.kind = "response"
    /\ api.fetched.status = 500
    /\ api.outcome.kind = "throw"
    /\ api.outcome.value.name = "DigitalOceanAPIError"
    /\ api.outcome.value.code = "server_error"

\* C20: every call answered with a failure status rejects with a
\* DigitalOceanAPIError carrying a code, a message and the status of the
\* response, and every 2xx response with an empty body resolves with no
\* payload.
C20_StructuredErrorAndEmptySuccess ==
    (api.op = "request" /\ api.pc = "done" /\ api.fetched.kind = "response") =>
        /\ ~Ok(api.fetched.status) =>
              /\ api.outcome.kind = "throw"
              /\ api.outcome.value.name = "DigitalOceanAPIError"
              /\ api.outcome.value.statusCode = api.fetched.status
        /\ (Ok(api.fetched.status) /\ api.fetched.body.kind = "empty") =>
              api.outcome.kind = "return" /\ api.outcome.value = Void

----------------------------------------------------------------------------
(* Error policy of the retry loop, and the ledger against the steps run *)

\* C21: an error a step raises for a missing local invariant (no server IP or
\* SSH key id in state, no key pair on disk) is not retried: after it the
\* retry loop does not attempt the step again.
C21_PreconditionErrorsNotRetried ==
    [][(failures' > failures /\ lastThrown' \in PreconditionErrors) =>
          pc' # "while"]_vars

\* C22: when the wait for the remote Tailscale authentication times out, the
\* step is not attempted again and no restart confirmation is requested: the
\* error propagates and startDeployment rejects.
C22_TailscaleTimeoutFailsTerminally ==
    [][(failures' > failures /\ lastThrown' = TailscaleTimedOut) =>
          (pc' = "idle" /\ settled' = "rejected")]_vars

\* C23: a checkpoint enters the ledger only in the step that follows the
\* successful return of its own step, and that write is made before the next
\* for iteration starts; every other change of the ledger removes entries.
C23_LedgerHoldsOnlyReturnedSteps ==
    [][/\ \A name \in Names(checkpoints') \ Names(checkpoints) :
             pc = "while" /\ pc' = "for" /\ name = At(i)
       /\ (pc = "while" /\ pc' = "for") => At(i) \in Names(checkpoints')]_vars

\* The fourth step is in flight and the ledger holds the three that returned
C23_Witness ==
    /\ pc = "while"
    /\ i = 3
    /\ executed = << 0, 1, 2 >>
    /\ Names(checkpoints) = {"server_created", "ssh_key_uploaded", "ssh_connected"}

----------------------------------------------------------------------------
(* The server_created work: createServer against the provider *)

\* How many times the step is executed (first attempt, retries, resumes)
MaxExecutions == 2

\* What the orchestrator and the clients leave alone while a step
\* implementation is examined on its own
outside == << persisted, orchestrator, call, api >>

\* What a provider call answers. A delete finds the resource or not, a create
\* is refused while a resource of that name exists, and every call can fail
\* for a reason of its own.
ListResults == {"ok", "error"}
DeleteResults(present) ==
    IF present THEN {"ok", "error"} ELSE {"not_found", "error"}
CreateResults(present) ==
    IF present THEN {"uniqueness_error"} ELSE {"ok", "error"}
WaitResults == {"ok", "error"}

\* One provider call of the current execution: the call, its answer, and
\* whether a resource of the deployment's name existed when it was issued
\* (for a list call: whether the list showed one).
Called(op, result, present) == [op |-> op, result |-> result, present |-> present]

\* existingKeys.find((k) => k.name === sshKeyName), and the same for servers:
\* whether the list holds a resource of the name
Find_none(listed) == FALSE

Find(listed) == listed

\* The catch blocks of the cleanup: only not_found is ignored
Ignored(result) == result = "not_found"

\* The providers of the Provider type, and the ones offered as supported
Providers == {"hetzner", "digitalocean", "vultr"}
SUPPORTED_PROVIDERS == {"hetzner", "digitalocean"}
isProviderSupported(provider) == provider \in SUPPORTED_PROVIDERS

\* createServer's first statement: it goes on for a Hetzner deployment that
\* has its Hetzner configuration
OnlyHetzner(provider, hetzner) == provider = "hetzner" /\ hetzner

\* createServer up to its first provider call: check the provider, load the
\* key pair and decide whether remote resources must be cleaned up.
CreateServerBegin ==
    /\ work.op = "createServer"
    /\ work.pc = "begin"
    /\ work' = [work EXCEPT
                  !.pc = IF ~OnlyHetzner(work.provider, work.hetzner)
                         THEN "threw"
                         ELSE IF ~work.keyPair /\ (work.serverId \/ work.sshKeyId)
                         THEN "cleanupServer" ELSE "generate"]
    /\ UNCHANGED outside

\* Local keys missing: delete the server recorded in the state, if any.
CleanupServer(result) ==
    /\ work.op = "createServer"
    /\ work.pc = "cleanupServer"
    /\ IF work.serverId
       THEN /\ result \in DeleteResults(work.serverPresent)
            /\ work' = [work EXCEPT
                          !.calls = Append(@, Called("deleteServer", result,
                                                     work.serverPresent)),
                          !.serverPresent = IF result = "ok" THEN FALSE ELSE @,
                          !.pc = IF result = "ok" \/ Ignored(result)
                                 THEN "cleanupKey" ELSE "threw"]
       ELSE /\ result = "ok"
            /\ work' = [work EXCEPT !.pc = "cleanupKey"]
    /\ UNCHANGED outside

\* Delete the SSH key recorded in the state, if any, then reset the state.
CleanupKey(result) ==
    /\ work.op = "createServer"
    /\ work.pc = "cleanupKey"
    /\ IF work.sshKeyId
       THEN /\ result \in DeleteResults(work.keyPresent)
            /\ work' = [work EXCEPT
                          !.calls = Append(@, Called("deleteSSHKey", result,
                                                     work.keyPresent)),
                          !.keyPresent = IF result = "ok" THEN FALSE ELSE @,
                          !.serverId = IF result = "ok" \/ Ignored(result)
                                       THEN FALSE ELSE @,
                          !.sshKeyId = IF result = "ok" \/ Ignored(result)
                                       THEN FALSE ELSE @,
                          !.pc = IF result = "ok" \/ Ignored(result)
                                 THEN "generate" ELSE "threw"]
       ELSE /\ result = "ok"
            /\ work' = [work EXCEPT !.serverId = FALSE, !.pc = "generate"]
    /\ UNCHANGED outside

\* Generate and save a key pair if there is none, then list the keys.
ListSSHKeys(result) ==
    /\ work.op = "createServer"
    /\ work.pc = "generate"
    /\ result \in ListResults
    /\ work' = [work EXCEPT
                  !.keyPair = TRUE,
                  !.calls = Append(@, Called("listSSHKeys", result,
                                             work.keyPresent)),
                  !.pc = IF result # "ok" THEN "threw"
                         ELSE IF Find(work.keyPresent) THEN "deleteKey"
                         ELSE "createKey"]
    /\ UNCHANGED outside

\* A key of the name was listed: delete it.
DeleteStaleKey(result) ==
    /\ work.op = "createServer"
    /\ work.pc = "deleteKey"
    /\ result \in DeleteResults(work.keyPresent)
    /\ work' = [work EXCEPT
                  !.calls = Append(@, Called("deleteSSHKey", result,
                                             work.keyPresent)),
                  !.keyPresent = IF result = "ok" THEN FALSE ELSE @,
                  !.pc = IF result = "ok" THEN "createKey" ELSE "threw"]
    /\ UNCHANGED outside

\* Upload the public key and record its id, then list the servers.
CreateSSHKey(result) ==
    /\ work.op = "createServer"
    /\ work.pc = "createKey"
    /\ result \in CreateResults(work.keyPresent)
    /\ work' = [work EXCEPT
                  !.calls = Append(@, Called("createSSHKey", result,
                                             work.keyPresent)),
                  !.keyPresent = IF result = "ok" THEN TRUE ELSE @,
                  !.sshKeyId = IF result = "ok" THEN TRUE ELSE @,
                  !.pc = IF result = "ok" THEN "listServers" ELSE "threw"]
    /\ UNCHANGED outside

ListServers(result) ==
    /\ work.op = "createServer"
    /\ work.pc = "listServers"
    /\ result \in ListResults
    /\ work' = [work EXCEPT
                  !.calls = Append(@, Called("listServers", result,
                                             work.serverPresent)),
                  !.pc = IF result # "ok" THEN "threw"
                         ELSE IF Find(work.serverPresent) THEN "deleteServer"
                         ELSE "createServer"]
    /\ UNCHANGED outside

\* A server of the name was listed: delete it and wait 5 s.
DeleteExistingServer(result) ==
    /\ work.op = "createServer"
    /\ work.pc = "deleteServer"
    /\ result \in DeleteResults(work.serverPresent)
    /\ work' = [work EXCEPT
                  !.calls = Append(@, Called("deleteServer", result,
                                             work.serverPresent)),
                  !.serverPresent = IF result = "ok" THEN FALSE ELSE @,
                  !.pc = IF result = "ok" THEN "createServer" ELSE "threw"]
    /\ UNCHANGED outside

\* Create the server and record its id.
CreateServerCall(result) ==
    /\ work.op = "createServer"
    /\ work.pc = "createServer"
    /\ result \in CreateResults(work.serverPresent)
    /\ work' = [work EXCEPT
                  !.calls = Append(@, Called("createServer", result,
                                             work.serverPresent)),
                  !.serverPresent = IF result = "ok" THEN TRUE ELSE @,
                  !.serverId = IF result = "ok" THEN TRUE ELSE @,
                  !.pc = IF result = "ok" THEN "wait" ELSE "threw"]
    /\ UNCHANGED outside

\* Wait for the server to run and record its address.
WaitForServerRunning(result) ==
    /\ work.op = "createServer"
    /\ work.pc = "wait"
    /\ result \in WaitResults
    /\ work' = [work EXCEPT
                  !.calls = Append(@, Called("waitForServerRunning", result,
                                             work.serverPresent)),
                  !.pc = IF result = "ok" THEN "returned" ELSE "threw"]
    /\ UNCHANGED outside

\* The step is executed again: by the retry loop after it threw, or by a
\* restart or a later run after it returned.
ExecuteAgain ==
    /\ work.op = "createServer"
    /\ work.pc \in {"threw", "returned"}
    /\ work.executions < MaxExecutions
    /\ work' = [work EXCEPT !.pc = "begin", !.calls = << >>,
                            !.executions = @ + 1]
    /\ UNCHANGED outside

\* The first execution, for every combination of: the provider and whether
\* the Hetzner configuration is there, key pair on disk, server id and key id
\* in the state, key and server of the name at the provider.
StartCreateServer(provider, hetzner, keyPair, serverId, sshKeyId, keyPresent, serverPresent) ==
    /\ work = NoStep
    /\ work' = [op |-> "createServer", provider |-> provider,
                hetzner |-> hetzner, keyPair |-> keyPair,
                serverId |-> serverId, sshKeyId |-> sshKeyId,
                keyPresent |-> keyPresent, serverPresent |-> serverPresent,
                calls |-> << >>, executions |-> 1, pc |-> "begin"]
    /\ UNCHANGED outside

StepInit ==
    /\ status = "initialized"
    /\ checkpoints = << >>
    /\ lastError = undefined
    /\ Idle
    /\ call = NoCall
    /\ api = NoApi
    /\ work = NoStep

ServerNext ==
    \/ \E provider \in Providers :
          \E hetzner, keyPair, serverId, sshKeyId, keyPresent, serverPresent \in BOOLEAN :
             StartCreateServer(provider, hetzner, keyPair, serverId, sshKeyId,
                               keyPresent, serverPresent)
    \/ CreateServerBegin
    \/ \E result \in {"ok", "not_found", "error"} : CleanupServer(result)
    \/ \E result \in {"ok", "not_found", "error"} : CleanupKey(result)
    \/ \E result \in ListResults : ListSSHKeys(result)
    \/ \E result \in {"ok", "not_found", "error"} : DeleteStaleKey(result)
    \/ \E result \in {"ok", "error", "uniqueness_error"} : CreateSSHKey(result)
    \/ \E result \in ListResults : ListServers(result)
    \/ \E result \in {"ok", "not_found", "error"} : DeleteExistingServer(result)
    \/ \E result \in {"ok", "error", "uniqueness_error"} : CreateServerCall(result)
    \/ \E result \in WaitResults : WaitForServerRunning(result)
    \/ ExecuteAgain

ServerSpec == StepInit /\ [][ServerNext]_vars

\* The create call of each list call
CreateOf(list) == IF list = "listSSHKeys" THEN "createSSHKey" ELSE "createServer"
DeleteOf(list) == IF list = "listSSHKeys" THEN "deleteSSHKey" ELSE "deleteServer"

\* C24: in an execution of createServer each create call (createSSHKey,
\* createServer) comes after a list call of the same kind of that execution
\* and, when the list showed a resource of the name, after a delete of it
\* that succeeded; so no create is issued while the listed resource is there.
C24_CheckBeforeCreate ==
    work.op = "createServer" =>
        \A list \in {"listSSHKeys", "listServers"} :
            \A p \in 1..Len(work.calls) :
                work.calls[p].op = CreateOf(list) =>
                    /\ ~work.calls[p].present
                    /\ \E q \in 1..(p - 1) :
                          /\ work.calls[q].op = list
                          /\ work.calls[q].result = "ok"
                          /\ work.calls[q].present =>
                                \E r \in (q + 1)..(p - 1) :
                                    /\ work.calls[r].op = DeleteOf(list)
                                    /\ work.calls[r].result = "ok"

\* A retry that finds the key and the server of the first execution, deletes
\* both and creates them again
C24_Witness ==
    /\ work.op = "createServer"
    /\ work.pc = "returned"
    /\ work.executions = 2
    /\ Len(work.calls) = 7
    /\ work.calls[1] = Called("listSSHKeys", "ok", TRUE)
    /\ work.calls[2] = Called("deleteSSHKey", "ok", TRUE)
    /\ work.calls[3] = Called("createSSHKey", "ok", FALSE)
    /\ work.calls[4] = Called("listServers", "ok", TRUE)
    /\ work.calls[5] = Called("deleteServer", "ok", TRUE)
    /\ work.calls[6] = Called("createServer", "ok", FALSE)

----------------------------------------------------------------------------
(* The tailscale_authenticated step: authenticateTailscale on the host *)

\* waitForTailscaleAuth(ssh, 300000), and the pause between two status reads
timeoutMs == 300000
pollInterval == 5000

\* What `tailscale status --json` can answer: the exit code, whether stdout
\* parses as JSON, and the two fields the code reads
StatusResults ==
    [code : {0, 1}, json : BOOLEAN,
     BackendState : {"Running", "NeedsLogin"}, Online : BOOLEAN]

\* What the `grep -oP 'https://[^\s]+' | head -1` pipelines can print: a URL,
\* split after its scheme, or nothing
UrlOutputs == { << "https://", "login.tailscale.com/a/1f2e3d" >>, << >> }

\* stdout.trim().startsWith("https://")
StartsWithHttps(stdout) == Len(stdout) > 0 /\ Head(stdout) = "https://"

\* status.BackendState === "Running" && status.Self?.Online, reached only
\* when the command exited with 0 and its output parsed
Authenticated(statusResult) ==
    /\ statusResult.code = 0
    /\ statusResult.json
    /\ statusResult.BackendState = "Running"
    /\ statusResult.Online

\* ensureSSHConnected has returned; getTailscaleAuthUrl starts.
StartAuthenticate ==
    /\ work = NoStep
    /\ work' = [op |-> "authenticateTailscale", pc |-> "status",
                authUrl |-> << >>, observed |-> FALSE, opened |-> FALSE,
                elapsed |-> 0]
    /\ UNCHANGED outside

\* getTailscaleAuthUrl: the status probe
ProbeStatus(statusResult) ==
    /\ work.op = "authenticateTailscale"
    /\ work.pc = "status"
    /\ work' = IF Authenticated(statusResult)
               THEN [work EXCEPT !.observed = TRUE, !.pc = "returned"]
               ELSE [work EXCEPT !.pc = "up"]
    /\ UNCHANGED outside

\* getTailscaleAuthUrl: timeout 10 tailscale up
TailscaleUp(stdout) ==
    /\ work.op = "authenticateTailscale"
    /\ work.pc = "up"
    /\ work' = IF StartsWithHttps(stdout)
               THEN [work EXCEPT !.authUrl = stdout, !.pc = "confirm"]
               ELSE [work EXCEPT !.pc = "login"]
    /\ UNCHANGED outside

\* getTailscaleAuthUrl: tailscale login, and `return null` after it. With a
\* null authUrl authenticateTailscale returns at once.
TailscaleLogin(stdout) ==
    /\ work.op = "authenticateTailscale"
    /\ work.pc = "login"
    /\ work' = IF StartsWithHttps(stdout)
               THEN [work EXCEPT !.authUrl = stdout, !.pc = "confirm"]
               ELSE [work EXCEPT !.pc = "returned"]
    /\ UNCHANGED outside

\* if (authUrl): ask, open the browser on a yes, start the wait
ConfirmOpen(answer) ==
    /\ work.op = "authenticateTailscale"
    /\ work.pc = "confirm"
    /\ work' = [work EXCEPT !.opened = answer, !.pc = "while"]
    /\ UNCHANGED outside

\* waitForTailscaleAuth: while (Date.now() - startTime < timeoutMs), and the
\* throw after the loop
WaitLoopTest ==
    /\ work.op = "authenticateTailscale"
    /\ work.pc = "while"
    /\ work' = [work EXCEPT
                  !.pc = IF work.elapsed < timeoutMs THEN "poll" ELSE "threw"]
    /\ UNCHANGED outside

\* waitForTailscaleAuth: one status read, then the pause
PollStatus(statusResult) ==
    /\ work.op = "authenticateTailscale"
    /\ work.pc = "poll"
    /\ work' = IF Authenticated(statusResult)
               THEN [work EXCEPT !.observed = TRUE, !.pc = "returned"]
               ELSE [work EXCEPT !.elapsed = @ + pollInterval, !.pc = "while"]
    /\ UNCHANGED outside

TailscaleNext ==
    \/ StartAuthenticate
    \/ \E statusResult \in StatusResults : ProbeStatus(statusResult)
    \/ \E stdout \in UrlOutputs : TailscaleUp(stdout)
    \/ \E stdout \in UrlOutputs : TailscaleLogin(stdout)
    \/ \E answer \in BOOLEAN : ConfirmOpen(answer)
    \/ WaitLoopTest
    \/ \E statusResult \in StatusResults : PollStatus(statusResult)

TailscaleSpec == StepInit /\ [][TailscaleNext]_vars

\* C25 as stated: authenticateTailscale returns (and the checkpoint is
\* recorded) only after a status read showed BackendState Running with Self
\* online; in every other case it ends with the timeout error.
C25_RecordedOnlyWhenObservedAuthenticated ==
    (work.op = "authenticateTailscale" /\ work.pc = "returned") => work.observed

----------------------------------------------------------------------------
(* The recipes of services/setup, run over the channel *)

\* Exit codes of a remote command
ExitCodes == {0, 1}

\* execOrFail: throws when the exit code is not 0
ExecFails(code) == code # 0

\* What `systemctl is-active openclaw` prints, character by character
ActiveOutput == << "a", "c", "t", "i", "v", "e" >>
IsActiveOutputs ==
    { ActiveOutput,
      << "i", "n", "a", "c", "t", "i", "v", "e" >>,
      << "f", "a", "i", "l", "e", "d" >>,
      << "a", "c", "t", "i", "v", "a", "t", "i", "n", "g" >> }

\* String.prototype.includes
StringIncludes(stdout, searchString) ==
    \E k \in 0..(Len(stdout) - Len(searchString)) :
        SubSeq(stdout, k + 1, k + Len(searchString)) = searchString

\* statusResult.stdout.includes("active")
LooksActive(stdout) == StringIncludes(stdout, ActiveOutput)

\* startDaemon after ensureSSHConnected and the server IP check
StartDaemon(keyPair) ==
    /\ work = NoStep
    /\ work' = [op |-> "startDaemon", pc |-> "install", keyPair |-> keyPair,
                startStatus |-> << >>, reStatus |-> << >>,
                restarted |-> FALSE]
    /\ UNCHANGED outside

\* installOpenClawDaemon: its commands run through execOrFail
InstallDaemon(code) ==
    /\ work.op = "startDaemon"
    /\ work.pc = "install"
    /\ work' = [work EXCEPT !.pc = IF ExecFails(code) THEN "threw" ELSE "start"]
    /\ UNCHANGED outside

\* startOpenClawDaemon: systemctl start openclaw
SystemctlStart(code) ==
    /\ work.op = "startDaemon"
    /\ work.pc = "start"
    /\ work' = [work EXCEPT !.pc = IF ExecFails(code) THEN "threw" ELSE "verify"]
    /\ UNCHANGED outside

\* startOpenClawDaemon: verify the daemon is running, throw if not
VerifyStarted(stdout) ==
    /\ work.op = "startDaemon"
    /\ work.pc = "verify"
    /\ work' = [work EXCEPT !.startStatus = stdout,
                            !.pc = IF LooksActive(stdout) THEN "onboard"
                                   ELSE "threw"]
    /\ UNCHANGED outside

\* startDaemon: offer the interactive onboard; on a yes the key pair is
\* loaded and the terminal is opened
OfferOnboard(wantsOnboard) ==
    /\ work.op = "startDaemon"
    /\ work.pc = "onboard"
    /\ work' = [work EXCEPT
                  !.pc = IF ~wantsOnboard THEN "returned"
                         ELSE IF ~work.keyPair THEN "threw"
                         ELSE "reverify"]
    /\ UNCHANGED outside

\* startDaemon: re-verify after onboard, restart if not running
ReverifyDaemon(stdout) ==
    /\ work.op = "startDaemon"
    /\ work.pc = "reverify"
    /\ work' = [work EXCEPT !.reStatus = stdout,
                            !.restarted = ~LooksActive(stdout),
                            !.pc = "returned"]
    /\ UNCHANGED outside

\* The commands of setupSwap, in the order of its `commands` array
SwapCommands ==
    << "fallocate", "chmod", "mkswap", "swapon", "fstab", "sysctl",
       "sysctl.conf" >>

\* The host as setupSwap sees and changes it: the swap file, whether it is
\* an active swap area, the lines appended to /etc/fstab and
\* /etc/sysctl.conf, and the running vm.swappiness
FreshHost ==
    [swapfile |-> "none", active |-> FALSE, fstab |-> 0, swappiness |-> FALSE,
     sysctlConf |-> 0]

\* What a command that exits with 0 has done to the host
Effect(cmd, host) ==
    CASE cmd = "fallocate"   -> [host EXCEPT !.swapfile = "allocated"]
      [] cmd = "chmod"       -> host
      [] cmd = "mkswap"      -> [host EXCEPT !.swapfile = "formatted"]
      [] cmd = "swapon"      -> [host EXCEPT !.active = TRUE]
      [] cmd = "fstab"       -> [host EXCEPT !.fstab = @ + 1]
      [] cmd = "sysctl"      -> [host EXCEPT !.swappiness = TRUE]
      [] cmd = "sysctl.conf" -> [host EXCEPT !.sysctlConf = @ + 1]

\* checkResult.stdout.includes("/swapfile"): `swapon --show` lists the active
\* swap areas
SwapShown(host) == host.active

\* The first execution of setupSwap on a fresh host
StartSetupSwap ==
    /\ work = NoStep
    /\ work' = [op |-> "setupSwap", pc |-> "probe", cmd |-> 1,
                host |-> FreshHost, executions |-> 1]
    /\ UNCHANGED outside

\* setupSwap: check if swap already exists
ProbeSwap ==
    /\ work.op = "setupSwap"
    /\ work.pc = "probe"
    /\ work' = [work EXCEPT
                  !.pc = IF SwapShown(work.host) THEN "returned" ELSE "for",
                  !.cmd = 1]
    /\ UNCHANGED outside

\* setupSwap: one iteration of `for (const cmd of commands)`
RunSwapCommand(code) ==
    /\ work.op = "setupSwap"
    /\ work.pc = "for"
    /\ work' = IF ExecFails(code)
               THEN [work EXCEPT !.pc = "threw"]
               ELSE [work EXCEPT
                       !.host = Effect(SwapCommands[work.cmd], work.host),
                       !.cmd = @ + 1,
                       !.pc = IF work.cmd = Len(SwapCommands) THEN "verify"
                              ELSE "for"]
    /\ UNCHANGED outside

\* setupSwap: verify swap is active (free -h shows the 4G of the swap file)
VerifySwap ==
    /\ work.op = "setupSwap"
    /\ work.pc = "verify"
    /\ work' = [work EXCEPT
                  !.pc = IF work.host.active THEN "returned" ELSE "threw"]
    /\ UNCHANGED outside

\* The swap_configured step is executed again on the same host
RerunSetupSwap ==
    /\ work.op = "setupSwap"
    /\ work.pc \in {"threw", "returned"}
    /\ work.executions < MaxExecutions
    /\ work' = [work EXCEPT !.pc = "probe", !.executions = @ + 1]
    /\ UNCHANGED outside

\* The recipes that read the host first and return when what they install is
\* already there, and the recipes that run their commands unconditionally
ProbedRecipes ==
    {"setupSwap", "installNVM", "installNode", "installPnpm", "installChrome",
     "installOpenClaw", "installTailscale"}
UnprobedRecipes ==
    {"updateSystem", "configureOpenClaw", "configureTailscaleServe",
     "writeOpenClawEnvFile", "installOpenClawDaemon", "startOpenClawDaemon"}
Recipes == ProbedRecipes \cup UnprobedRecipes

\* Whether the recipe returns before its first mutating command
ReturnsEarly(recipe, satisfied) == recipe \in ProbedRecipes /\ satisfied

\* A recipe is called on a host where its end state is satisfied or not.
StartRecipe(recipe, satisfied) ==
    /\ work = NoStep
    /\ work' = [op |-> "recipe", pc |-> "probe", recipe |-> recipe,
                satisfied |-> satisfied, mutated |-> FALSE]
    /\ UNCHANGED outside

\* The head of the recipe: the probe and the early return, where there is one
ProbeRecipe ==
    /\ work.op = "recipe"
    /\ work.pc = "probe"
    /\ work' = [work EXCEPT
                  !.pc = IF ReturnsEarly(work.recipe, work.satisfied)
                         THEN "returned" ELSE "act"]
    /\ UNCHANGED outside

\* The mutating commands of the recipe and its verification
ActRecipe(code) ==
    /\ work.op = "recipe"
    /\ work.pc = "act"
    /\ work' = [work EXCEPT !.mutated = TRUE,
                            !.pc = IF ExecFails(code) THEN "threw"
                                   ELSE "returned"]
    /\ UNCHANGED outside

SetupNext ==
    \/ \E keyPair \in BOOLEAN : StartDaemon(keyPair)
    \/ \E code \in ExitCodes : InstallDaemon(code)
    \/ \E code \in ExitCodes : SystemctlStart(code)
    \/ \E stdout \in IsActiveOutputs : VerifyStarted(stdout)
    \/ \E wantsOnboard \in BOOLEAN : OfferOnboard(wantsOnboard)
    \/ \E stdout \in IsActiveOutputs : ReverifyDaemon(stdout)
    \/ StartSetupSwap
    \/ ProbeSwap
    \/ \E code \in ExitCodes : RunSwapCommand(code)
    \/ VerifySwap
    \/ RerunSetupSwap
    \/ \E recipe \in Recipes, satisfied \in BOOLEAN : StartRecipe(recipe, satisfied)
    \/ ProbeRecipe
    \/ \E code \in ExitCodes : ActRecipe(code)

SetupSpec == StepInit /\ [][SetupNext]_vars

\* C26 as stated: daemon_started takes the service as running only when the
\* reported status is active: startOpenClawDaemon throws for every other
\* status, and the re-verification restarts the service for every other
\* status (inactive, failed, activating).
C26_RunningOnlyWhenStatusActive ==
    work.op = "startDaemon" =>
        /\ work.pc \in {"onboard", "reverify", "returned"} =>
              work.startStatus = ActiveOutput
        /\ (work.reStatus # << >> /\ work.reStatus # ActiveOutput) =>
              work.restarted

\* C28 as stated: every provisioning recipe is check-then-act: called on a
\* host where the end state it establishes is already satisfied, it returns
\* without having run a mutating command.
C28_RecipesCheckThenAct ==
    (work.op = "recipe" /\ work.satisfied) => ~work.mutated

\* C29 as stated: whenever setupSwap returns successfully, a re-run after a
\* failed attempt included, the swap area is active, the swappiness is set at
\* runtime, and /etc/fstab and /etc/sysctl.conf hold their appended line
\* exactly once.
C29_SwapEffectsAllInPlace ==
    (work.op = "setupSwap" /\ work.pc = "returned") =>
        /\ work.host.active
        /\ work.host.swappiness
        /\ work.host.fstab = 1
        /\ work.host.sysctlConf = 1

----------------------------------------------------------------------------
(* The channel: sshConnection, connectSSH and ensureSSHConnected *)

\* How many steps that need the channel are executed
MaxSteps == 6

\* sshConnection is null, or a connection that is connected or not
Connections == {"null", "connected", "closed"}

\* SSHConnection.isConnected()
isConnected(conn) == conn = "connected"

\* What connect() does: it resolves on a connected connection or rejects
ConnectResults == {"connected", "rejected"}

\* ensureSSHConnected: anything but `this.sshConnection?.isConnected()`
NeedsConnect_null(conn) == conn = "null"

NeedsConnect(conn) == ~(conn # "null" /\ isConnected(conn))

\* Nothing has asked for the channel yet. `opens` counts the connections
\* created so far.
NoEnsure == [before |-> "null", opened |-> FALSE, onto |-> "null",
             started |-> FALSE]

\* A new orchestrator: sshConnection is null. The state file has the server
\* IP or not and the key pair is on disk or not.
StartChannel(serverIp, keyPair) ==
    /\ work = NoStep
    /\ work' = [op |-> "channel", conn |-> "null", serverIp |-> serverIp,
                keyPair |-> keyPair, steps |-> 0, opens |-> 0,
                last |-> NoEnsure]
    /\ UNCHANGED outside

\* The ssh_connected step: connectSSH. A resume after ssh_connected does not
\* take this action.
ConnectSSH(result) ==
    /\ work.op = "channel"
    /\ work.steps = 0
    /\ work.conn = "null"
    /\ work.serverIp /\ work.keyPair
    /\ work' = [work EXCEPT
                  !.opens = @ + 1,
                  !.conn = IF result = "connected" THEN "connected" ELSE "closed"]
    /\ UNCHANGED outside

\* The connection drops.
Drop ==
    /\ work.op = "channel"
    /\ work.conn = "connected"
    /\ work' = [work EXCEPT !.conn = "closed"]
    /\ UNCHANGED outside

\* A step that needs the channel: ensureSSHConnected, then the recipe starts
\* on the connection it returned.
RecipeStep(result) ==
    /\ work.op = "channel"
    /\ work.steps < MaxSteps
    /\ work' =
         IF ~NeedsConnect(work.conn)
         THEN [work EXCEPT
                 !.steps = @ + 1,
                 !.last = [before |-> work.conn, opened |-> FALSE,
                           onto |-> work.conn, started |-> TRUE]]
         ELSE IF ~work.serverIp \/ ~work.keyPair
         THEN [work EXCEPT
                 !.steps = @ + 1,
                 !.last = [before |-> work.conn, opened |-> FALSE,
                           onto |-> work.conn, started |-> FALSE]]
         ELSE [work EXCEPT
                 !.steps = @ + 1,
                 !.opens = @ + 1,
                 !.conn = IF result = "connected" THEN "connected" ELSE "closed",
                 !.last = [before |-> work.conn, opened |-> TRUE,
                           onto |-> IF result = "connected" THEN "connected"
                                    ELSE "closed",
                           started |-> result = "connected"]]
    /\ UNCHANGED outside

ChannelNext ==
    \/ \E serverIp, keyPair \in BOOLEAN : StartChannel(serverIp, keyPair)
    \/ \E result \in ConnectResults : ConnectSSH(result)
    \/ Drop
    \/ \E result \in ConnectResults : RecipeStep(result)

ChannelSpec == StepInit /\ [][ChannelNext]_vars

\* C27: every recipe step that needs the channel starts on a connection
\* whose isConnected() is true, and ensureSSHConnected opens a new connection
\* only when there is none or the existing one reports not connected; this
\* includes a resume after ssh_connected, where there is none.
C27_RecipesStartOnLiveConnection ==
    work.op = "channel" =>
        /\ work.last.started => isConnected(work.last.onto)
        /\ work.last.opened =>
              (work.last.before = "null" \/ ~isConnected(work.last.before))

\* A later step finds the connection dropped and starts on a new one
C27_Witness ==
    /\ work.op = "channel"
    /\ work.steps = 2
    /\ work.last.before = "closed"
    /\ work.last.opened
    /\ work.last.started
    /\ isConnected(work.conn)

----------------------------------------------------------------------------
(* A progress callback that throws *)

\* What onProgress throws; reportProgress does not catch it. The checkpoint
\* is the step that was being reported.
CallbackError(checkpoint, rc) ==
    [name |-> "Error", message |-> "onProgress", checkpoint |-> checkpoint,
     retryCount |-> rc, recoverable |-> FALSE]

\* Top of a for iteration with a callback that throws: reportProgress is
\* called outside the try block, so the error leaves executeFromCheckpoint,
\* deploy and startDeployment.
ProgressThrows ==
    /\ pc = "for"
    /\ i < OrderLength
    /\ retryCount' = getCheckpointRetryCount(State, At(i))
    /\ entryLedger' = checkpoints
    /\ attempts' = 0
    /\ reports' = Append(reports, reportProgress(At(i)))
    /\ thrown' = CallbackError(At(i), getCheckpointRetryCount(State, At(i)))
    /\ settled' = "rejected"
    /\ pc' = "idle"
    /\ UNCHANGED << persisted, i, executed, startNames, lastThrown, confirmed,
                    restarts, prevFailedAt, failures, runs, resets >>
    /\ UNCHANGED others

\* A new deployment
CallbackInit ==
    /\ status = "initialized"
    /\ checkpoints = << >>
    /\ lastError = undefined
    /\ Idle
    /\ call = NoCall
    /\ api = NoApi
    /\ work = NoStep

\* Deployments whose steps all succeed, with a callback that may throw
CallbackNext ==
    \/ Deploy
    \/ ForIteration
    \/ ProgressThrows
    \/ StepSucceeds
    \/ Finish

CallbackSpec == CallbackInit /\ [][CallbackNext]_vars

\* C30 as stated: whatever the progress callback does, throwing included,
\* the run is the one a no-op callback gives: with steps that all succeed,
\* startDeployment resolves with every step executed from the start
\* checkpoint on, every checkpoint in the ledger and the status deployed.
C30_CallbackCannotChangeTheRun ==
    (pc = "idle" /\ runs > 0) =>
        /\ settled = "resolved"
        /\ status = "deployed"
        /\ OrderNames \subseteq Names(checkpoints)

----------------------------------------------------------------------------
(* The legacy checkpoint name *)

\* The persisted state without its entries of names outside the fixed order
WithoutLegacy(state) ==
    [state EXCEPT
       !.checkpoints = SelectSeq(state.checkpoints,
                                 LAMBDA cp : cp.name # "channel_paired")]

\* C31: a channel_paired entry in the persisted state changes neither
\* getLastCheckpoint nor getNextCheckpoint (so deploy starts where it would
\* start without the entry), and the orchestrator neither executes the name
\* nor writes it to the ledger.
C31_LegacyNameIsNeverLive ==
    [][/\ getLastCheckpoint(State) = getLastCheckpoint(WithoutLegacy(State))
       /\ getNextCheckpoint(State) = getNextCheckpoint(WithoutLegacy(State))
       /\ (pc = "idle" /\ pc' = "for") =>
             i' = IndexOf(getNextCheckpoint(WithoutLegacy(State)))
       /\ "channel_paired" \notin Names(checkpoints') \ Names(checkpoints)
       /\ \A k \in 1..Len(executed') :
             At(executed'[k]) # "channel_paired"]_vars

\* A run that started on a ledger holding only the legacy entry has executed
\* the first step of the order
C31_Witness ==
    /\ Names(checkpoints) = {"channel_paired", "server_created"}
    /\ executed = << 0 >>
    /\ pc = "for"

----------------------------------------------------------------------------
(* A new deployment, with runs that can end in a crash *)

\* The process ends in the middle of a run: nothing more is written, what is
\* persisted stays as the last write left it, and the orchestrator's memory
\* is gone.
Crash ==
    /\ pc \in {"for", "while", "confirm"}
    /\ pc' = "idle"
    /\ settled' = "crashed"
    /\ i' = 0
    /\ retryCount' = 0
    /\ thrown' = NULL
    /\ executed' = << >>
    /\ startNames' = {}
    /\ entryLedger' = << >>
    /\ attempts' = 0
    /\ lastThrown' = undefined
    /\ confirmed' = "none"
    /\ restarts' = 0
    /\ prevFailedAt' = -1
    /\ reports' = << >>
    /\ UNCHANGED << persisted, failures, runs, resets >>
    /\ UNCHANGED others

FreshNext ==
    \/ Deploy
    \/ ForIteration
    \/ StepSucceeds
    \/ \E errorMessage \in Messages : StepThrows(errorMessage)
    \/ ConfirmRestart
    \/ DeclineRestart
    \/ Finish
    \/ \E checkpointName \in OrderNames : ResetCall(checkpointName)
    \/ Crash

\* Deployments that start initialized with an empty ledger
FreshSpec == CallbackInit /\ [][FreshNext]_vars

\* C32: from an empty ledger, whatever runs, step failures, confirmed and
\* declined restarts, crashes and resetToCheckpoint calls happen, the names
\* in the ledger are the first n names of the fixed order for some n.
C32_LedgerIsPrefixOfOrder == IsOrderPrefix(Names(checkpoints))

\* A run crashed after its third step, and the next run has executed the
\* fourth
C32_Witness ==
    /\ runs = 2
    /\ executed = << 3 >>
    /\ Names(checkpoints) = { At(k) : k \in 0..3 }

\* C33: from an initialized deployment with an empty ledger, whenever the
\* persisted status is deployed the ledger holds every checkpoint of the
\* fixed order, completed included.
C33_DeployedMeansLedgerComplete ==
    status = "deployed" => OrderNames \subseteq Names(checkpoints)

\* A run has written the completed checkpoint and the status deployed
C33_Witness ==
    /\ status = "deployed"
    /\ executed # << >>
    /\ executed[Len(executed)] = OrderLength - 1

----------------------------------------------------------------------------
(* The connections of one deploy() run *)

\* How many connections a run creates, how many steps after ssh_connected it
\* has, and how many times the user confirms a restart
MaxOpens == 3
MaxRecipes == 2
MaxRestarts == 1

\* What connectSSH and ensureSSHConnected meet: the host is not reachable or
\* a precondition is missing (nothing is created), or a connection is created
\* and connect() resolves or rejects
OpenResults == {"unavailable", "connected", "rejected"}

\* createSSHConnection and connect(): the connections created so far, with
\* the new one at the end
Opened(conns, result) ==
    Append(conns, IF result = "connected" THEN "connected" ELSE "closed")

\* deploy's finally block: disconnect the held connection if it is connected
Disconnected_never(conns, held) == conns

Disconnected(conns, held) ==
    IF held # 0 /\ isConnected(conns[held])
    THEN [conns EXCEPT ![held] = "closed"]
    ELSE conns

\* The catch block after a failed attempt: retry, or ask the user
AfterFailure(rc, here) == IF RetriesRemain(rc + 1) THEN here ELSE "confirm"

\* deploy() on a new orchestrator: sshConnection is null. The run starts at
\* server_created, at ssh_connected or at a later step.
StartDeploy(start) ==
    /\ work = NoStep
    /\ work' = [op |-> "deploy", pc |-> start, held |-> 0, conns |-> << >>,
                rc |-> 0, done |-> 0, restarts |-> 0]
    /\ UNCHANGED outside

\* The steps before ssh_connected, which do not touch the connection
EarlySteps(ok) ==
    /\ work.op = "deploy"
    /\ work.pc = "early"
    /\ work' = IF ok THEN [work EXCEPT !.pc = "connect", !.rc = 0]
               ELSE [work EXCEPT !.rc = IF RetriesRemain(@ + 1) THEN @ + 1 ELSE 0,
                                 !.pc = AfterFailure(work.rc, "early")]
    /\ UNCHANGED outside

\* The ssh_connected step: connectSSH assigns a new connection to
\* sshConnection, whatever it held, and connects it.
ConnectStep(result) ==
    /\ work.op = "deploy"
    /\ work.pc = "connect"
    /\ result # "unavailable" => Len(work.conns) < MaxOpens
    /\ work' =
         IF result = "unavailable"
         THEN [work EXCEPT !.rc = IF RetriesRemain(@ + 1) THEN @ + 1 ELSE 0,
                           !.pc = AfterFailure(work.rc, "connect")]
         ELSE IF result = "rejected"
         THEN [work EXCEPT !.conns = Opened(@, result),
                           !.held = Len(work.conns) + 1,
                           !.rc = IF RetriesRemain(@ + 1) THEN @ + 1 ELSE 0,
                           !.pc = AfterFailure(work.rc, "connect")]
         ELSE [work EXCEPT !.conns = Opened(@, result),
                           !.held = Len(work.conns) + 1,
                           !.rc = 0,
                           !.pc = "recipes"]
    /\ UNCHANGED outside

\* A step after ssh_connected: ensureSSHConnected, then the recipe, which
\* succeeds or fails.
ChannelStep(result, ok) ==
    /\ work.op = "deploy"
    /\ work.pc = "recipes"
    /\ LET reuse == ~NeedsConnect(IF work.held = 0 THEN "null"
                                  ELSE work.conns[work.held])
           opens == ~reuse /\ result # "unavailable"
           ran == reuse \/ result = "connected"
           succeeded == ran /\ ok
       IN /\ opens => Len(work.conns) < MaxOpens
          /\ work' =
               [work EXCEPT
                  !.conns = IF opens THEN Opened(@, result) ELSE @,
                  !.held = IF opens THEN Len(work.conns) + 1 ELSE @,
                  !.rc = IF succeeded \/ ~RetriesRemain(@ + 1) THEN 0 ELSE @ + 1,
                  !.done = IF succeeded THEN @ + 1 ELSE @,
                  !.pc = IF succeeded
                         THEN (IF work.done + 1 = MaxRecipes THEN "finally"
                               ELSE "recipes")
                         ELSE AfterFailure(work.rc, "recipes")]
    /\ UNCHANGED outside

\* The retries are exhausted and the user confirms: the order is executed
\* again from server_created, in the same deploy() call.
RestartFromZero ==
    /\ work.op = "deploy"
    /\ work.pc = "confirm"
    /\ work.restarts < MaxRestarts
    /\ work' = [work EXCEPT !.pc = "early", !.rc = 0, !.done = 0,
                            !.restarts = @ + 1]
    /\ UNCHANGED outside

\* The user declines: DeploymentError leaves executeFromCheckpoint.
Declined ==
    /\ work.op = "deploy"
    /\ work.pc = "confirm"
    /\ work' = [work EXCEPT !.pc = "finally"]
    /\ UNCHANGED outside

\* A connected connection drops.
ConnectionDrops(k) ==
    /\ work.op = "deploy"
    /\ work.pc # "settled"
    /\ k \in 1..Len(work.conns)
    /\ isConnected(work.conns[k])
    /\ work' = [work EXCEPT !.conns[k] = "closed"]
    /\ UNCHANGED outside

\* executeFromCheckpoint returned or threw: the finally block, then deploy()
\* settles.
Finally ==
    /\ work.op = "deploy"
    /\ work.pc = "finally"
    /\ work' = [work EXCEPT !.conns = Disconnected(work.conns, work.held),
                            !.pc = "settled"]
    /\ UNCHANGED outside

ConnectionNext ==
    \/ \E start \in {"early", "connect", "recipes"} : StartDeploy(start)
    \/ \E ok \in BOOLEAN : EarlySteps(ok)
    \/ \E result \in OpenResults : ConnectStep(result)
    \/ \E result \in OpenResults, ok \in BOOLEAN : ChannelStep(result, ok)
    \/ RestartFromZero
    \/ Declined
    \/ \E k \in 1..MaxOpens : ConnectionDrops(k)
    \/ Finally

ConnectionSpec == StepInit /\ [][ConnectionNext]_vars

\* C34: when deploy() has settled, by returning or by throwing, the
\* connection the orchestrator holds is not connected.
C34_HeldConnectionClosedOnSettle ==
    (work.op = "deploy" /\ work.pc = "settled") =>
        (work.held = 0 \/ ~isConnected(work.conns[work.held]))

\* A run that ended with a connected connection, which the finally block
\* disconnected
C34_Witness ==
    /\ work.op = "deploy"
    /\ work.pc = "settled"
    /\ work.done = MaxRecipes
    /\ work.conns = << "closed" >>
    /\ work.held = 1

\* C35 as stated: no connection a deploy() run opened is still connected
\* when the run settles, and at most one connection is connected at any
\* time, also when ssh_connected runs again after a retry or a restart.
C35_NoConnectionLeftOpen ==
    work.op = "deploy" =>
        /\ Cardinality({k \in 1..Len(work.conns) : isConnected(work.conns[k])}) <= 1
        /\ work.pc = "settled" =>
              \A k \in 1..Len(work.conns) : ~isConnected(work.conns[k])

----------------------------------------------------------------------------
(* The provider of a deployment *)

\* C36 as stated: for every provider for which isProviderSupported is true,
\* server_created completes when every provider API call succeeds: an
\* execution of createServer that threw has a provider call that failed.
C36_SupportedProviderCanCreateServer ==
    (/\ work.op = "createServer"
     /\ work.pc = "threw"
     /\ isProviderSupported(work.provider)
     /\ (work.provider = "hetzner" => work.hetzner)) =>
        \E p \in 1..Len(work.calls) :
            work.calls[p].result \notin {"ok", "not_found"}

----------------------------------------------------------------------------
(* Termination of a run *)

\* executeFromCheckpoint without the bookkeeping of Spec: the loop index, the
\* retry count and where the run stands, for runs of any length.

\* The shouldRetry branch: reset and execute the order again from its first
\* checkpoint
OnConfirm(run) ==
    [run EXCEPT !.pc = "for", !.i = 0, !.rc = 0, !.restarted = TRUE]

\* The else branch: throw new DeploymentError
OnDecline_restarts(run) == OnConfirm(run)

OnDecline(run) == [run EXCEPT !.pc = "rejected"]

\* deploy() computed the start checkpoint and entered the loop.
RunStart(startIndex) ==
    /\ work = NoStep
    /\ work' = [op |-> "run", pc |-> "for", start |-> startIndex,
                i |-> startIndex, rc |-> 0, restarted |-> FALSE]
    /\ UNCHANGED outside

\* Top of a for iteration: the checkpoint is not in the ledger yet, or is
\* `completed`, so its retry count reads 0. After the last iteration the
\* status deployed is written and deploy() returns.
RunIteration ==
    /\ work.op = "run"
    /\ work.pc = "for"
    /\ work' = IF work.i < OrderLength
               THEN [work EXCEPT !.pc = "while", !.rc = 0]
               ELSE [work EXCEPT !.pc = "deployed"]
    /\ UNCHANGED outside

\* executeCheckpoint returned: break, next iteration.
RunStepSucceeds ==
    /\ work.op = "run"
    /\ work.pc = "while"
    /\ work' = [work EXCEPT !.pc = "for", !.i = @ + 1]
    /\ UNCHANGED outside

\* executeCheckpoint threw: retry after the backoff, or ask the user.
RunStepThrows ==
    /\ work.op = "run"
    /\ work.pc = "while"
    /\ StepMayThrow(At(work.i))
    /\ work' = [work EXCEPT !.rc = @ + 1,
                            !.pc = IF RetriesRemain(work.rc + 1) THEN "while"
                                   ELSE "confirm"]
    /\ UNCHANGED outside

\* onConfirm resolved true
RunConfirmed ==
    /\ work.op = "run"
    /\ work.pc = "confirm"
    /\ work' = OnConfirm(work)
    /\ UNCHANGED outside

\* onConfirm resolved false
RunDeclined ==
    /\ work.op = "run"
    /\ work.pc = "confirm"
    /\ work' = OnDecline(work)
    /\ UNCHANGED outside

RunNext ==
    \/ \E startIndex \in 0..(OrderLength - 1) : RunStart(startIndex)
    \/ RunIteration
    \/ RunStepSucceeds
    \/ RunStepThrows
    \/ RunConfirmed
    \/ RunDeclined

\* Every callback and remote call returns (the run always takes its next
\* step), and a user who is asked again and again says no at some point.
RunLiveSpec ==
    /\ StepInit
    /\ [][RunNext]_vars
    /\ WF_vars(RunNext)
    /\ SF_vars(RunDeclined)

\* C37: under these conditions every run terminates: it ends with status
\* deployed or it rejects with the DeploymentError of a declined restart.
C37_EveryRunTerminates ==
    (work.op = "run") ~>
        (work.op = "run" /\ work.pc \in {"deployed", "rejected"})

\* A run that was restarted from the beginning, failed again and was declined
C37_Witness ==
    /\ work.op = "run"
    /\ work.pc = "rejected"
    /\ work.restarted
    /\ work.rc = MAX_RETRIES

----------------------------------------------------------------------------
(* DestroyView: destroying a deployment *)

\* destroyDeployment(name) is called. The deployment is in the list or not;
\* its state has a server id and a key id or not; the server and the key
\* exist at the provider or not (a server exists only if the state knows it).
StartDestroy(found, provider, serverId, sshKeyId, serverPresent, keyPresent) ==
    /\ work = NoStep
    /\ serverPresent => serverId
    /\ work' = [op |-> "destroy", viewState |-> "destroying",
                pc |-> IF ~found THEN "catch"
                       ELSE IF serverId THEN "deleteServer"
                       ELSE "deleteLocal",
                provider |-> provider, serverId |-> serverId,
                sshKeyId |-> sshKeyId, serverPresent |-> serverPresent,
                keyPresent |-> keyPresent, record |-> found,
                calls |-> << >>]
    /\ UNCHANGED outside

\* client.deleteServer / client.deleteDroplet in its own try block: every
\* error is logged and dropped
DestroyServer(result) ==
    /\ work.op = "destroy"
    /\ work.pc = "deleteServer"
    /\ result \in DeleteResults(work.serverPresent)
    /\ work' = [work EXCEPT
                  !.calls = Append(@, Called("deleteServer", result,
                                             work.serverPresent)),
                  !.serverPresent = IF result = "ok" THEN FALSE ELSE @,
                  !.pc = IF work.sshKeyId THEN "deleteSSHKey" ELSE "deleteLocal"]
    /\ UNCHANGED outside

\* client.deleteSSHKey in its own try block
DestroySSHKey(result) ==
    /\ work.op = "destroy"
    /\ work.pc = "deleteSSHKey"
    /\ result \in DeleteResults(work.keyPresent)
    /\ work' = [work EXCEPT
                  !.calls = Append(@, Called("deleteSSHKey", result,
                                             work.keyPresent)),
                  !.keyPresent = IF result = "ok" THEN FALSE ELSE @,
                  !.pc = "deleteLocal"]
    /\ UNCHANGED outside

\* deleteDeployment(name), refreshDeployments, setViewState("success")
DeleteLocal ==
    /\ work.op = "destroy"
    /\ work.pc = "deleteLocal"
    /\ work' = [work EXCEPT !.record = FALSE, !.viewState = "success",
                            !.pc = "done"]
    /\ UNCHANGED outside

\* The outer catch: setError, setViewState("error")
DestroyFails ==
    /\ work.op = "destroy"
    /\ work.pc = "catch"
    /\ work' = [work EXCEPT !.viewState = "error", !.pc = "done"]
    /\ UNCHANGED outside

DestroyNext ==
    \/ \E provider \in SUPPORTED_PROVIDERS :
          \E found, serverId, sshKeyId, serverPresent, keyPresent \in BOOLEAN :
             StartDestroy(found, provider, serverId, sshKeyId, serverPresent,
                          keyPresent)
    \/ \E result \in {"ok", "not_found", "error"} : DestroyServer(result)
    \/ \E result \in {"ok", "not_found", "error"} : DestroySSHKey(result)
    \/ DeleteLocal
    \/ DestroyFails

DestroySpec == StepInit /\ [][DestroyNext]_vars

\* C38 as stated: destroying a deployment deletes the local record only if
\* the remote server is gone (its deletion succeeded or it did not exist): no
\* destroy ends with the record deleted and the server still there.
C38_RecordDeletedOnlyIfServerGone ==
    (work.op = "destroy" /\ ~work.record /\ work.viewState = "success") =>
        ~work.serverPresent

----------------------------------------------------------------------------
(* LogsView: fetchLogs, the auto-refresh timer and goBack *)

\* How many fetchLogs calls are in flight at once
MaxFetches == 2

\* The sequence without its k-th element
Remove(seq, k) == SubSeq(seq, 1, k - 1) \o SubSeq(seq, k + 1, Len(seq))

\* fetchLogs up to its first await: it awaits connectToDeployment when
\* sshRef holds no connected connection, else getOpenClawLogs
Fetching(view) ==
    [view EXCEPT
       !.fetches = Append(@, IF isConnected(view.ssh) THEN "logs" ELSE "connect")]

\* stopAutoRefresh
stopAutoRefresh(view) == [view EXCEPT !.autoRefresh = FALSE, !.timer = FALSE]

\* goBack
goBack(view) ==
    [stopAutoRefresh(view) EXCEPT
       !.ssh = IF isConnected(view.ssh) THEN "null" ELSE @,
       !.viewState = "selecting",
       !.left = TRUE]

\* The view is mounted.
MountLogs ==
    /\ work = NoStep
    /\ work' = [op |-> "logs", viewState |-> "selecting", ssh |-> "null",
                autoRefresh |-> FALSE, timer |-> FALSE, fetches |-> << >>,
                left |-> FALSE]
    /\ UNCHANGED outside

\* return in the selecting state: loading, fetchLogs
KeyReturn ==
    /\ work.op = "logs"
    /\ work.viewState = "selecting"
    /\ Len(work.fetches) < MaxFetches
    /\ work' = Fetching([work EXCEPT !.viewState = "loading", !.left = FALSE])
    /\ UNCHANGED outside

\* r in the viewing state: fetchLogs
KeyR ==
    /\ work.op = "logs"
    /\ work.viewState = "viewing"
    /\ Len(work.fetches) < MaxFetches
    /\ work' = Fetching(work)
    /\ UNCHANGED outside

\* a in the viewing state: startAutoRefresh or stopAutoRefresh
KeyA ==
    /\ work.op = "logs"
    /\ work.viewState = "viewing"
    /\ work' = IF work.autoRefresh THEN stopAutoRefresh(work)
               ELSE [work EXCEPT !.autoRefresh = TRUE, !.timer = TRUE]
    /\ UNCHANGED outside

\* The interval elapses: fetchLogs
TimerFires ==
    /\ work.op = "logs"
    /\ work.timer
    /\ Len(work.fetches) < MaxFetches
    /\ work' = Fetching(work)
    /\ UNCHANGED outside

\* escape in the viewing state, any key in the error state: goBack
KeyEscape ==
    /\ work.op = "logs"
    /\ work.viewState \in {"viewing", "error"}
    /\ work' = goBack(work)
    /\ UNCHANGED outside

\* connectToDeployment settles for the k-th fetch in flight.
FetchConnects(k, ok) ==
    /\ work.op = "logs"
    /\ k \in 1..Len(work.fetches)
    /\ work.fetches[k] = "connect"
    /\ work' = IF ok
               THEN [work EXCEPT !.ssh = "connected", !.fetches[k] = "logs"]
               ELSE [work EXCEPT !.viewState = "error",
                                 !.fetches = Remove(@, k)]
    /\ UNCHANGED outside

\* getOpenClawLogs settles for the k-th fetch in flight; it can resolve only
\* on a connection that is still connected.
FetchSettles(k, ok) ==
    /\ work.op = "logs"
    /\ k \in 1..Len(work.fetches)
    /\ work.fetches[k] = "logs"
    /\ ok => isConnected(work.ssh)
    /\ work' = [work EXCEPT !.viewState = IF ok THEN "viewing" ELSE "error",
                            !.fetches = Remove(@, k)]
    /\ UNCHANGED outside

\* The connection drops.
LogsConnectionDrops ==
    /\ work.op = "logs"
    /\ isConnected(work.ssh)
    /\ work' = [work EXCEPT !.ssh = "closed"]
    /\ UNCHANGED outside

LogsNext ==
    \/ MountLogs
    \/ KeyReturn
    \/ KeyR
    \/ KeyA
    \/ TimerFires
    \/ KeyEscape
    \/ \E k \in 1..MaxFetches, ok \in BOOLEAN : FetchConnects(k, ok)
    \/ \E k \in 1..MaxFetches, ok \in BOOLEAN : FetchSettles(k, ok)
    \/ LogsConnectionDrops

LogsSpec == StepInit /\ [][LogsNext]_vars

\* C39 as stated: after goBack, and until the user opens a deployment's logs
\* again, the view is in the selecting state, holds no connected connection
\* and has no refresh timer, whatever a fetchLogs call that was in flight
\* does afterwards.
C39_NothingLeftAfterGoBack ==
    (work.op = "logs" /\ work.left) =>
        /\ work.viewState = "selecting"
        /\ ~isConnected(work.ssh)
        /\ ~work.timer

====
